---- MODULE Spec2Model ----
(***************************************************************************)
(* Snipply: the storage layer (MemStorage and DatabaseStorage behind the   *)
(* IStorage interface) and the Express route handlers that drive it.       *)
(*                                                                         *)
(* A store is a record of the six collections.  Row ids produced by        *)
(* randomUUID() are modelled as fresh integers taken from a per-table      *)
(* sequence number, so an id is never reused after a delete.  The tables   *)
(* whose rows are only ever looked up by content (likes, views, follows)   *)
(* are bags of rows: a Map from a random id to a row is a multiset of      *)
(* rows.  Timestamps are integer days read from the clock `now`.           *)
(***************************************************************************)
EXTENDS Integers, Sequences, FiniteSets, Bags, TLC

\* ---------------------------------------------------------------- bounds
\* how many snippets are created in the behaviours of each specification
LikesMaxSnippets == 2
ViewsMaxSnippets == 1
CascadeMaxSnippets == 1
VisibilityMaxSnippets == 1
TrendingMaxSnippets == 2
EquivMaxSnippets == 1
EquivMaxTime == 2
RaceMaxSnippets == 1
PatchMaxSnippets == 2
UnlikeMaxBelowZero == 1
UnlikeMaxSnippets == 1
SessionMaxSnippets == 1
InverseMaxSnippets == 1
InboxMaxSnippets == 2
AdminMaxSnippets == 1
AtomicMaxSnippets == 1
FaultMaxSnippets == 1
FanoutMaxSnippets == 1
PayloadMaxSnippets == 1
OwnerMaxSnippets == 1
GuardsMaxSnippets == 1
\* how far the clock runs
MaxTime == 8

\* ------------------------------------------------------ program constants
\* weekAgo.setDate(weekAgo.getDate() - 7)
TrendingWindowDays == 7

Null == 0
NullIp == "null"
Impls == {"mem", "db"}

VARIABLES
    mem,        \* the collections of a MemStorage object
    db,         \* the tables behind a DatabaseStorage object
    storage,    \* which implementation is driven: "mem", "db" or "both"
    session,    \* session[c]: req.session.userId of client c (Null: none)
    now,        \* the clock read by new Date()
    resp,       \* the last request handled and its response
    inflight    \* requests suspended at an await, by request slot

vars == <<mem, db, storage, session, now, resp, inflight>>

\* ------------------------------------------------------------ collections
EmptyStore ==
    [ users |-> <<>>, snippets |-> <<>>, notifications |-> <<>>,
      snippetLikes |-> EmptyBag, snippetViews |-> EmptyBag, follows |-> EmptyBag,
      userSeq |-> 0, snippetSeq |-> 0, notificationSeq |-> 0 ]

Put(f, k, v) == [x \in (DOMAIN f) \cup {k} |-> IF x = k THEN v ELSE f[x]]
Drop(f, ks) == [x \in (DOMAIN f) \ ks |-> f[x]]
Has(f, k) == k \in DOMAIN f

\* rows of a bag that satisfy / do not satisfy a predicate
Rows(b) == BagToSet(b)
Keep(b, keep(_)) == [r \in {x \in DOMAIN b : keep(x)} |-> b[r]]
AddRow(b, r) == b (+) SetToBag({r})
\* Map.delete(row.id): one of the equal rows goes
RemoveOne(b, r) == b (-) SetToBag({r})

\* { ...record, ...updates }, and UPDATE ... SET updates
Merge(record, updates) ==
    [f \in DOMAIN record |-> IF f \in DOMAIN updates THEN updates[f] ELSE record[f]]

Like(snippetId, userId) == [snippetId |-> snippetId, userId |-> userId]
View(snippetId, userId, ipAddress) ==
    [snippetId |-> snippetId, userId |-> userId, ipAddress |-> ipAddress]
Follow(followerId, followingId) ==
    [followerId |-> followerId, followingId |-> followingId]

\* what a storage call leaves behind: the store, the value returned, and
\* whether the promise was rejected (an exception thrown) instead
Result(st, ret) == [st |-> st, ret |-> ret, threw |-> FALSE]
Throw(st, ret) == [st |-> st, ret |-> ret, threw |-> TRUE]

\* ------------------------------------------------------------- MemStorage
\* bcrypt.hash(password, 10): the stored value is not the password
Hash(password) == <<"bcrypt", password>>

User(username, email, password, rank) ==
    [ username |-> username, email |-> email, password |-> Hash(password), rank |-> rank,
      profilePicture |-> "" ]

\* getUser(id) !== undefined
Mem_getUser(st, id) == Has(st.users, id)

\* Array.from(users.values()).find(...): the first match in insertion order
Mem_getUserByUsername(st, username) ==
    LET ids == {i \in DOMAIN st.users : st.users[i].username = username}
    IN  IF ids = {} THEN Null ELSE CHOOSE i \in ids : \A j \in ids : i <= j

\* mutant: the lookup compares the address with the username field
Mem_getUserByEmail_ByUsername(st, email) ==
    LET ids == {i \in DOMAIN st.users : st.users[i].username = email}
    IN  IF ids = {} THEN Null ELSE CHOOSE i \in ids : \A j \in ids : i <= j

Mem_getUserByEmail(st, email) ==
    LET ids == {i \in DOMAIN st.users : st.users[i].email = email}
    IN  IF ids = {} THEN Null ELSE CHOOSE i \in ids : \A j \in ids : i <= j

Mem_createAdminUser(st, username, email, password, rank) ==
    LET id == st.userSeq + 1
    IN  Result([st EXCEPT !.users = Put(@, id, User(username, email, password, rank)),
                          !.userSeq = id], id)

Mem_createUser(st, username, email, password) ==
    LET id == st.userSeq + 1
    IN  Result([st EXCEPT !.users = Put(@, id, User(username, email, password, "default")),
                          !.userSeq = id], id)


Snippet(title, isPublic, authorId, at) ==
    [ title |-> title, isPublic |-> isPublic, authorId |-> authorId,
      views |-> 0, likes |-> 0, createdAt |-> at, updatedAt |-> at ]

Mem_createSnippet(st, title, isPublic, authorId, at) ==
    LET id == st.snippetSeq + 1
    IN  Result([st EXCEPT !.snippets = Put(@, id, Snippet(title, isPublic, authorId, at)),
                          !.snippetSeq = id], id)

\* { ...snippet, ...updates, updatedAt: new Date() }
Mem_updateSnippetWith(st, id, updates, at) ==
    IF ~Has(st.snippets, id) THEN Result(st, Null)
    ELSE Result([st EXCEPT !.snippets[id] = [Merge(@, updates) EXCEPT !.updatedAt = at]], id)

\* updates: the title and isPublic of the request body ({...snippet, ...updates})
Mem_updateSnippet(st, id, title, isPublic, at) ==
    Mem_updateSnippetWith(st, id, [title |-> title, isPublic |-> isPublic], at)

Mem_deleteSnippet(st, id) ==
    Result([st EXCEPT !.snippets = Drop(@, {id})], Has(st.snippets, id))

\* view.snippetId === snippetId && (userId ? view.userId === userId
\*                                         : view.ipAddress === ipAddress)
\* a stored null never equals an ipAddress that was not passed (undefined)
\* mutant: only the userId is compared, a view without a session never matches
Mem_existingView_UserOnly(st, snippetId, userId, ipAddress) ==
    \E v \in Rows(st.snippetViews) :
        v.snippetId = snippetId /\ userId # Null /\ v.userId = userId

Mem_existingView(st, snippetId, userId, ipAddress) ==
    \E v \in Rows(st.snippetViews) :
        /\ v.snippetId = snippetId
        /\ IF userId # Null THEN v.userId = userId
           ELSE ipAddress # NullIp /\ v.ipAddress = ipAddress

Mem_incrementViews(st, snippetId, userId, ipAddress) ==
    IF Mem_existingView(st, snippetId, userId, ipAddress) THEN Result(st, TRUE)
    ELSE LET st1 == [st EXCEPT !.snippetViews = AddRow(@, View(snippetId, userId, ipAddress))]
         IN  IF Has(st.snippets, snippetId)
             THEN Result([st1 EXCEPT !.snippets[snippetId].views = @ + 1], TRUE)
             ELSE Result(st1, TRUE)

Mem_isSnippetLiked(st, snippetId, userId) == BagIn(Like(snippetId, userId), st.snippetLikes)

\* mutant: the existingLike check is dropped
Mem_likeSnippet_NoExistingCheck(st, snippetId, userId) ==
    LET st1 == [st EXCEPT !.snippetLikes = AddRow(@, Like(snippetId, userId))]
    IN  IF Has(st.snippets, snippetId)
        THEN Result([st1 EXCEPT !.snippets[snippetId].likes = @ + 1], TRUE)
        ELSE Result(st1, TRUE)

Mem_likeSnippet(st, snippetId, userId) ==
    IF Mem_isSnippetLiked(st, snippetId, userId) THEN Result(st, FALSE)
    ELSE LET st1 == [st EXCEPT !.snippetLikes = AddRow(@, Like(snippetId, userId))]
         IN  IF Has(st.snippets, snippetId)
             THEN Result([st1 EXCEPT !.snippets[snippetId].likes = @ + 1], TRUE)
             ELSE Result(st1, TRUE)

\* unlikeSnippet that removes the like and leaves the counter
Mem_unlikeSnippet_KeepsCounter(st, snippetId, userId) ==
    IF ~Mem_isSnippetLiked(st, snippetId, userId) THEN Result(st, FALSE)
    ELSE Result([st EXCEPT !.snippetLikes = RemoveOne(@, Like(snippetId, userId))], TRUE)

Mem_unlikeSnippet(st, snippetId, userId) ==
    IF ~Mem_isSnippetLiked(st, snippetId, userId) THEN Result(st, FALSE)
    ELSE LET st1 == [st EXCEPT !.snippetLikes = RemoveOne(@, Like(snippetId, userId))]
         IN  IF Has(st.snippets, snippetId) /\ st.snippets[snippetId].likes > 0
             THEN Result([st1 EXCEPT !.snippets[snippetId].likes = @ - 1], TRUE)
             ELSE Result(st1, TRUE)

Mem_isFollowing(st, followerId, followingId) ==
    BagIn(Follow(followerId, followingId), st.follows)

\* mutant: the self-follow check is dropped
Mem_followUser_NoSelfCheck(st, followerId, followingId) ==
    IF Mem_isFollowing(st, followerId, followingId) THEN Result(st, FALSE)
    ELSE Result([st EXCEPT !.follows = AddRow(@, Follow(followerId, followingId))], TRUE)

Mem_followUser(st, followerId, followingId) ==
    IF followerId = followingId THEN Result(st, FALSE)
    ELSE IF Mem_isFollowing(st, followerId, followingId) THEN Result(st, FALSE)
    ELSE Result([st EXCEPT !.follows = AddRow(@, Follow(followerId, followingId))], TRUE)

Mem_unfollowUser(st, followerId, followingId) ==
    IF ~Mem_isFollowing(st, followerId, followingId) THEN Result(st, FALSE)
    ELSE Result([st EXCEPT !.follows = RemoveOne(@, Follow(followerId, followingId))], TRUE)

\* followers that still exist: one entry per follow row, so a follower with
\* two follow rows is listed twice (a bag of user ids)
Mem_getFollowers(st, userId) ==
    [u \in {f.followerId : f \in {x \in Rows(st.follows) : x.followingId = userId}}
                \cap DOMAIN st.users
        |-> st.follows[Follow(u, userId)]]

Notification(userId, snippetId, fromUserId) ==
    [ userId |-> userId, type |-> "new_snippet", snippetId |-> snippetId,
      fromUserId |-> fromUserId, isRead |-> FALSE ]

Mem_createNotification(st, userId, snippetId, fromUserId) ==
    LET id == st.notificationSeq + 1
    IN  Result([st EXCEPT !.notifications = Put(@, id, Notification(userId, snippetId, fromUserId)),
                          !.notificationSeq = id], id)

\* mutant: the follows filter forgets the rows that point at the user
Mem_deleteUserAndSnippets_KeepsFollowers(st, userId) ==
    IF ~Has(st.users, userId) THEN Result(st, FALSE)
    ELSE
    LET userSnippets == {s \in DOMAIN st.snippets : st.snippets[s].authorId = userId}
    IN  Result(
          [st EXCEPT
             !.snippets = Drop(@, userSnippets),
             !.snippetLikes =
                 Keep(@, LAMBDA l : l.snippetId \notin userSnippets /\ l.userId # userId),
             !.snippetViews =
                 Keep(@, LAMBDA v : v.snippetId \notin userSnippets /\ v.userId # userId),
             !.follows = Keep(@, LAMBDA f : f.followerId # userId),
             !.notifications =
                 Drop(@, {n \in DOMAIN @ : @[n].userId = userId \/ @[n].fromUserId = userId}),
             !.users = Drop(@, {userId})],
          TRUE)

Mem_deleteUserAndSnippets(st, userId) ==
    IF ~Has(st.users, userId) THEN Result(st, FALSE)
    ELSE
    LET userSnippets == {s \in DOMAIN st.snippets : st.snippets[s].authorId = userId}
    IN  Result(
          [st EXCEPT
             !.snippets = Drop(@, userSnippets),
             !.snippetLikes =
                 Keep(@, LAMBDA l : l.snippetId \notin userSnippets /\ l.userId # userId),
             !.snippetViews =
                 Keep(@, LAMBDA v : v.snippetId \notin userSnippets /\ v.userId # userId),
             !.follows =
                 Keep(@, LAMBDA f : f.followerId # userId /\ f.followingId # userId),
             !.notifications =
                 Drop(@, {n \in DOMAIN @ : @[n].userId = userId \/ @[n].fromUserId = userId}),
             !.users = Drop(@, {userId})],
          TRUE)

\* ---------------------------------------------------------- list queries
Min(a, b) == IF a <= b THEN a ELSE b

\* Array.prototype.sort with comparator key(b) - key(a): stable, so equal keys
\* stay in insertion order, which is the order of the ids; key[i] is the key of i
RECURSIVE SortDesc(_, _)
SortDesc(ids, key) ==
    IF ids = {} THEN <<>>
    ELSE LET first == CHOOSE i \in ids :
                        \A j \in ids : key[i] > key[j] \/ (key[i] = key[j] /\ i <= j)
         IN  <<first>> \o SortDesc(ids \ {first}, key)

\* the entries of a bag of ids as a list, lowest id first
RECURSIVE ToList(_)
ToList(b) ==
    IF DOMAIN b = {} THEN <<>>
    ELSE LET first == CHOOSE i \in DOMAIN b : \A j \in DOMAIN b : i <= j
         IN  <<first>> \o ToList(b (-) SetToBag({first}))

\* .slice(offset, offset + limit) and LIMIT limit OFFSET offset
Slice(s, offset, limit) == SubSeq(s, offset + 1, Min(Len(s), offset + limit))

Range(s) == {s[i] : i \in DOMAIN s}

\* ORDER BY key DESC: every order of the rows with non-increasing keys; SQL
\* leaves the order of rows with equal keys open
OrderByDesc(ids, key) ==
    {s \in [1..Cardinality(ids) -> ids] :
        /\ Range(s) = ids
        /\ \A i, j \in DOMAIN s : i < j => key[s[i]] >= key[s[j]]}

\* the sort keys of the snippets, as functions of the snippet id
UpdatedAt(st) == [s \in DOMAIN st.snippets |-> st.snippets[s].updatedAt]
CreatedAt(st) == [s \in DOMAIN st.snippets |-> st.snippets[s].createdAt]
Score(st) == [s \in DOMAIN st.snippets |-> st.snippets[s].likes + st.snippets[s].views]

\* the author object is built from users.get(authorId)!: a missing author
\* makes the map callback throw a TypeError
Mem_withAuthors(st, list) ==
    IF \A i \in DOMAIN list : Has(st.users, st.snippets[list[i]].authorId)
    THEN Result(st, list) ELSE Throw(st, <<>>)

Mem_getSnippetsByAuthor(st, authorId) ==
    IF ~Has(st.users, authorId) THEN Result(st, <<>>)
    ELSE Result(st, SortDesc({s \in DOMAIN st.snippets :
                                st.snippets[s].authorId = authorId /\ st.snippets[s].isPublic},
                             UpdatedAt(st)))

Mem_getPublicSnippets(st, limit, offset) ==
    Mem_withAuthors(st,
        Slice(SortDesc({s \in DOMAIN st.snippets : st.snippets[s].isPublic},
                       UpdatedAt(st)), offset, limit))

Mem_getTrendingSnippets(st, limit, at) ==
    LET weekAgo == at - TrendingWindowDays
    IN  Mem_withAuthors(st,
            Slice(SortDesc({s \in DOMAIN st.snippets :
                              st.snippets[s].isPublic /\ st.snippets[s].createdAt > weekAgo},
                           Score(st)), 0, limit))

\* getSnippetWithAuthor(id) !== undefined
Mem_getSnippetWithAuthor(st, id) ==
    Has(st.snippets, id) /\ Has(st.users, st.snippets[id].authorId)

\* the public snippets a user has a like on (the order is not modelled)
Mem_getLikedSnippetsByUser(st, userId) ==
    {s \in DOMAIN st.snippets :
        /\ Mem_isSnippetLiked(st, s, userId)
        /\ Mem_getSnippetWithAuthor(st, s)
        /\ st.snippets[s].isPublic}

\* the notifications of a user; each carries snippet {id, title} when the
\* snippet still exists
Mem_getNotifications(st, userId) ==
    {n \in DOMAIN st.notifications : st.notifications[n].userId = userId}

NotificationSnippets(st, ns) ==
    {st.notifications[n].snippetId : n \in ns} \cap DOMAIN st.snippets

\* ------------------------------------------------------------- text search
\* a text is a tuple of characters
Lower(c) == IF c = "A" THEN "a" ELSE IF c = "B" THEN "b" ELSE c
ToLowerCase(s) == [i \in DOMAIN s |-> Lower(s[i])]

\* String.prototype.includes, and LIKE '%q%'
Includes(text, q) ==
    \E i \in 0..(Len(text) - Len(q)) : SubSeq(text, i + 1, i + Len(q)) = q

\* query.toLowerCase().split(' ') of a query without blanks is one term;
\* the searchable text is the fields joined and lowered (the title is the
\* one text field modelled)
Mem_searchSnippets(st, query, isPublic) ==
    Mem_withAuthors(st,
        SortDesc({s \in DOMAIN st.snippets :
                    /\ ~(isPublic /\ ~st.snippets[s].isPublic)
                    /\ Includes(ToLowerCase(st.snippets[s].title), ToLowerCase(query))},
                 UpdatedAt(st)))

\* -------------------------------------------------------- DatabaseStorage
\* Each operator is the call run to completion, its statements in order.
Db_getUser(st, id) == Has(st.users, id)

\* users.username and users.email are UNIQUE: at most one row matches
Db_getUserByUsername(st, username) ==
    LET ids == {i \in DOMAIN st.users : st.users[i].username = username}
    IN  IF ids = {} THEN Null ELSE CHOOSE i \in ids : TRUE

Db_getUserByEmail(st, email) ==
    LET ids == {i \in DOMAIN st.users : st.users[i].email = email}
    IN  IF ids = {} THEN Null ELSE CHOOSE i \in ids : TRUE

\* text("username").notNull().unique(), text("email").notNull().unique()
UniqueViolation(st, username, email) ==
    \E i \in DOMAIN st.users :
        st.users[i].username = username \/ st.users[i].email = email

\* INSERT INTO users: the unique indexes reject a duplicate, the insert throws
Db_createAdminUser(st, username, email, password, rank) ==
    IF UniqueViolation(st, username, email) THEN Throw(st, Null)
    ELSE LET id == st.userSeq + 1
         IN  Result([st EXCEPT !.users = Put(@, id, User(username, email, password, rank)),
                               !.userSeq = id], id)

\* rank is left to the column default, "default"
Db_createUser(st, username, email, password) ==
    Db_createAdminUser(st, username, email, password, "default")


Db_createSnippet(st, title, isPublic, authorId, at) ==
    LET id == st.snippetSeq + 1
    IN  Result([st EXCEPT !.snippets = Put(@, id, Snippet(title, isPublic, authorId, at)),
                          !.snippetSeq = id], id)

\* UPDATE snippets SET { ...updates, updatedAt: new Date() } WHERE id
Db_updateSnippetWith(st, id, updates, at) ==
    IF ~Has(st.snippets, id) THEN Result(st, Null)
    ELSE Result([st EXCEPT !.snippets[id] = [Merge(@, updates) EXCEPT !.updatedAt = at]], id)

Db_updateSnippet(st, id, title, isPublic, at) ==
    Db_updateSnippetWith(st, id, [title |-> title, isPublic |-> isPublic], at)

Db_deleteSnippet(st, id) ==
    Result([st EXCEPT !.snippets = Drop(@, {id})], Has(st.snippets, id))

\* the SELECT of incrementViews: by user when a userId is passed, else by
\* address when one is passed, else no check at all
Db_existingView(st, snippetId, userId, ipAddress) ==
    IF userId # Null
    THEN \E v \in Rows(st.snippetViews) : v.snippetId = snippetId /\ v.userId = userId
    ELSE IF ipAddress # NullIp
    THEN \E v \in Rows(st.snippetViews) : v.snippetId = snippetId /\ v.ipAddress = ipAddress
    ELSE FALSE

Db_insertView(st, snippetId, userId, ipAddress) ==
    [st EXCEPT !.snippetViews = AddRow(@, View(snippetId, userId, ipAddress))]

\* UPDATE snippets SET <counter> = <counter> + delta WHERE id = snippetId
Db_addViews(st, snippetId, delta) ==
    IF Has(st.snippets, snippetId)
    THEN [st EXCEPT !.snippets[snippetId].views = @ + delta] ELSE st

Db_addLikes(st, snippetId, delta) ==
    IF Has(st.snippets, snippetId)
    THEN [st EXCEPT !.snippets[snippetId].likes = @ + delta] ELSE st

Db_incrementViews(st, snippetId, userId, ipAddress) ==
    IF Db_existingView(st, snippetId, userId, ipAddress) THEN Result(st, TRUE)
    ELSE Result(Db_addViews(Db_insertView(st, snippetId, userId, ipAddress), snippetId, 1), TRUE)

Db_isSnippetLiked(st, snippetId, userId) == BagIn(Like(snippetId, userId), st.snippetLikes)

Db_insertLike(st, snippetId, userId) ==
    [st EXCEPT !.snippetLikes = AddRow(@, Like(snippetId, userId))]

\* DELETE FROM snippet_likes WHERE snippet_id = .. AND user_id = ..: every such row
Db_deleteLikes(st, snippetId, userId) ==
    [st EXCEPT !.snippetLikes = Keep(@, LAMBDA l : l # Like(snippetId, userId))]

Db_likeSnippet(st, snippetId, userId) ==
    IF Db_isSnippetLiked(st, snippetId, userId) THEN Result(st, FALSE)
    ELSE Result(Db_addLikes(Db_insertLike(st, snippetId, userId), snippetId, 1), TRUE)

Db_unlikeSnippet(st, snippetId, userId) ==
    IF ~Db_isSnippetLiked(st, snippetId, userId) THEN Result(st, FALSE)
    ELSE Result(Db_addLikes(Db_deleteLikes(st, snippetId, userId), snippetId, -1), TRUE)

Db_isFollowing(st, followerId, followingId) ==
    BagIn(Follow(followerId, followingId), st.follows)

Db_followUser(st, followerId, followingId) ==
    IF followerId = followingId THEN Result(st, FALSE)
    ELSE IF Db_isFollowing(st, followerId, followingId) THEN Result(st, FALSE)
    ELSE Result([st EXCEPT !.follows = AddRow(@, Follow(followerId, followingId))], TRUE)

\* DELETE FROM follows WHERE ...; rowCount > 0
Db_unfollowUser(st, followerId, followingId) ==
    Result([st EXCEPT !.follows = Keep(@, LAMBDA f : f # Follow(followerId, followingId))],
           Db_isFollowing(st, followerId, followingId))

\* users INNER JOIN follows ON users.id = follows.follower_id
Db_getFollowers(st, userId) ==
    [u \in {f.followerId : f \in {x \in Rows(st.follows) : x.followingId = userId}}
                \cap DOMAIN st.users
        |-> st.follows[Follow(u, userId)]]

Db_createNotification(st, userId, snippetId, fromUserId) ==
    LET id == st.notificationSeq + 1
    IN  Result([st EXCEPT !.notifications = Put(@, id, Notification(userId, snippetId, fromUserId)),
                          !.notificationSeq = id], id)

\* the six DELETE statements in order; the result is the users rowCount > 0
Db_deleteUserAndSnippets(st, userId) ==
    LET userSnippets == {s \in DOMAIN st.snippets : st.snippets[s].authorId = userId}
    IN  Result(
          [st EXCEPT
             !.snippetLikes =
                 Keep(@, LAMBDA l : ~(l.snippetId \in userSnippets \/ l.userId = userId)),
             !.snippetViews =
                 Keep(@, LAMBDA v : ~(v.snippetId \in userSnippets \/ v.userId = userId)),
             !.follows =
                 Keep(@, LAMBDA f : ~(f.followerId = userId \/ f.followingId = userId)),
             !.notifications =
                 Drop(@, {n \in DOMAIN @ : @[n].userId = userId \/ @[n].fromUserId = userId}),
             !.snippets = Drop(@, userSnippets),
             !.users = Drop(@, {userId})],
          Has(st.users, userId))

\* snippets INNER JOIN users ON snippets.author_id = users.id
Joined(st) == {s \in DOMAIN st.snippets : Has(st.users, st.snippets[s].authorId)}

\* The SELECTs with ORDER BY: the set of results the database may return.
Db_getSnippetsByAuthor(st, authorId) ==
    OrderByDesc({s \in Joined(st) :
                    st.snippets[s].authorId = authorId /\ st.snippets[s].isPublic},
                CreatedAt(st))

Db_getPublicSnippets(st, limit, offset) ==
    {Slice(s, offset, limit) :
        s \in OrderByDesc({x \in Joined(st) : st.snippets[x].isPublic}, CreatedAt(st))}

Db_getTrendingSnippets(st, limit) ==
    {Slice(s, 0, limit) :
        s \in OrderByDesc({x \in Joined(st) : st.snippets[x].isPublic}, Score(st))}

Db_getSnippetWithAuthor(st, id) == id \in Joined(st)

Db_getLikedSnippetsByUser(st, userId) ==
    {s \in Joined(st) : Db_isSnippetLiked(st, s, userId) /\ st.snippets[s].isPublic}

Db_getNotifications(st, userId) ==
    {n \in DOMAIN st.notifications : st.notifications[n].userId = userId}

\* WHERE is_public = isPublic AND title LIKE '%query%'
Db_searchSnippets(st, query, isPublic) ==
    OrderByDesc({s \in Joined(st) :
                    /\ st.snippets[s].isPublic = isPublic
                    /\ Includes(st.snippets[s].title, query)},
                CreatedAt(st))

\* ----------------------------------------------------------------- IStorage
\* storage.<method>(...): the call goes to the implementation that is bound

getUser(impl, st, id) ==
    IF impl = "mem" THEN Mem_getUser(st, id) ELSE Db_getUser(st, id)

getUserByUsername(impl, st, username) ==
    IF impl = "mem" THEN Mem_getUserByUsername(st, username)
    ELSE Db_getUserByUsername(st, username)

getUserByEmail(impl, st, email) ==
    IF impl = "mem" THEN Mem_getUserByEmail(st, email) ELSE Db_getUserByEmail(st, email)

createUser(impl, st, username, email, password) ==
    IF impl = "mem" THEN Mem_createUser(st, username, email, password)
    ELSE Db_createUser(st, username, email, password)

createAdminUser(impl, st, username, email, password, rank) ==
    IF impl = "mem" THEN Mem_createAdminUser(st, username, email, password, rank)
    ELSE Db_createAdminUser(st, username, email, password, rank)

createSnippet(impl, st, title, isPublic, authorId, at) ==
    IF impl = "mem" THEN Mem_createSnippet(st, title, isPublic, authorId, at)
    ELSE Db_createSnippet(st, title, isPublic, authorId, at)

updateSnippetWith(impl, st, id, updates, at) ==
    IF impl = "mem" THEN Mem_updateSnippetWith(st, id, updates, at)
    ELSE Db_updateSnippetWith(st, id, updates, at)

updateSnippet(impl, st, id, title, isPublic, at) ==
    IF impl = "mem" THEN Mem_updateSnippet(st, id, title, isPublic, at)
    ELSE Db_updateSnippet(st, id, title, isPublic, at)

deleteSnippet(impl, st, id) ==
    IF impl = "mem" THEN Mem_deleteSnippet(st, id) ELSE Db_deleteSnippet(st, id)

incrementViews(impl, st, snippetId, userId, ipAddress) ==
    IF impl = "mem" THEN Mem_incrementViews(st, snippetId, userId, ipAddress)
    ELSE Db_incrementViews(st, snippetId, userId, ipAddress)

likeSnippet(impl, st, snippetId, userId) ==
    IF impl = "mem" THEN Mem_likeSnippet(st, snippetId, userId)
    ELSE Db_likeSnippet(st, snippetId, userId)

unlikeSnippet(impl, st, snippetId, userId) ==
    IF impl = "mem" THEN Mem_unlikeSnippet(st, snippetId, userId)
    ELSE Db_unlikeSnippet(st, snippetId, userId)

isSnippetLiked(impl, st, snippetId, userId) ==
    IF impl = "mem" THEN Mem_isSnippetLiked(st, snippetId, userId)
    ELSE Db_isSnippetLiked(st, snippetId, userId)

followUser(impl, st, followerId, followingId) ==
    IF impl = "mem" THEN Mem_followUser(st, followerId, followingId)
    ELSE Db_followUser(st, followerId, followingId)

unfollowUser(impl, st, followerId, followingId) ==
    IF impl = "mem" THEN Mem_unfollowUser(st, followerId, followingId)
    ELSE Db_unfollowUser(st, followerId, followingId)

getFollowers(impl, st, userId) ==
    IF impl = "mem" THEN Mem_getFollowers(st, userId) ELSE Db_getFollowers(st, userId)

createNotification(impl, st, userId, snippetId, fromUserId) ==
    IF impl = "mem" THEN Mem_createNotification(st, userId, snippetId, fromUserId)
    ELSE Db_createNotification(st, userId, snippetId, fromUserId)

deleteUserAndSnippets(impl, st, userId) ==
    IF impl = "mem" THEN Mem_deleteUserAndSnippets(st, userId)
    ELSE Db_deleteUserAndSnippets(st, userId)

getSnippetWithAuthor(impl, st, id) ==
    IF impl = "mem" THEN Mem_getSnippetWithAuthor(st, id) ELSE Db_getSnippetWithAuthor(st, id)

getLikedSnippetsByUser(impl, st, userId) ==
    IF impl = "mem" THEN Mem_getLikedSnippetsByUser(st, userId)
    ELSE Db_getLikedSnippetsByUser(st, userId)

getNotifications(impl, st, userId) ==
    IF impl = "mem" THEN Mem_getNotifications(st, userId) ELSE Db_getNotifications(st, userId)

\* the list queries: the set of outcomes the call may have
Outcomes(st, lists) == {Result(st, l) : l \in lists}

getSnippetsByAuthor(impl, st, authorId) ==
    IF impl = "mem" THEN {Mem_getSnippetsByAuthor(st, authorId)}
    ELSE Outcomes(st, Db_getSnippetsByAuthor(st, authorId))

getPublicSnippets(impl, st, limit, offset) ==
    IF impl = "mem" THEN {Mem_getPublicSnippets(st, limit, offset)}
    ELSE Outcomes(st, Db_getPublicSnippets(st, limit, offset))

getTrendingSnippets(impl, st, limit, at) ==
    IF impl = "mem" THEN {Mem_getTrendingSnippets(st, limit, at)}
    ELSE Outcomes(st, Db_getTrendingSnippets(st, limit))

searchSnippets(impl, st, query, isPublic) ==
    IF impl = "mem" THEN {Mem_searchSnippets(st, query, isPublic)}
    ELSE Outcomes(st, Db_searchSnippets(st, query, isPublic))

\* ---------------------------------- profiles, notifications, admin queries
Mem_updateUser(st, id, updates) ==
    IF ~Has(st.users, id) THEN Result(st, Null)
    ELSE Result([st EXCEPT !.users[id] = Merge(@, updates)], id)

\* UPDATE users SET .. WHERE id = .. RETURNING
Db_updateUser(st, id, updates) ==
    IF ~Has(st.users, id) THEN Result(st, Null)
    ELSE Result([st EXCEPT !.users[id] = Merge(@, updates)], id)

updateUser(impl, st, id, updates) ==
    IF impl = "mem" THEN Mem_updateUser(st, id, updates) ELSE Db_updateUser(st, id, updates)

\* getSnippet(id) !== undefined
Mem_getSnippet(st, id) == Has(st.snippets, id)
Db_getSnippet(st, id) == Has(st.snippets, id)
getSnippet(impl, st, id) ==
    IF impl = "mem" THEN Mem_getSnippet(st, id) ELSE Db_getSnippet(st, id)

\* the snippets of an author, private ones too
Mem_getUserOwnSnippets(st, authorId) ==
    IF ~Has(st.users, authorId) THEN Result(st, <<>>)
    ELSE Result(st, SortDesc({s \in DOMAIN st.snippets : st.snippets[s].authorId = authorId},
                             UpdatedAt(st)))

Db_getUserOwnSnippets(st, authorId) ==
    OrderByDesc({s \in Joined(st) : st.snippets[s].authorId = authorId}, CreatedAt(st))

getUserOwnSnippets(impl, st, authorId) ==
    IF impl = "mem" THEN {Mem_getUserOwnSnippets(st, authorId)}
    ELSE Outcomes(st, Db_getUserOwnSnippets(st, authorId))

\* the users a user follows that still exist
Mem_getFollowing(st, userId) ==
    [u \in {f.followingId : f \in {x \in Rows(st.follows) : x.followerId = userId}}
                \cap DOMAIN st.users
        |-> st.follows[Follow(userId, u)]]

Db_getFollowing(st, userId) ==
    [u \in {f.followingId : f \in {x \in Rows(st.follows) : x.followerId = userId}}
                \cap DOMAIN st.users
        |-> st.follows[Follow(userId, u)]]

getFollowing(impl, st, userId) ==
    IF impl = "mem" THEN Mem_getFollowing(st, userId) ELSE Db_getFollowing(st, userId)

\* markNotificationRead that does not compare the recipient
Mem_markNotificationRead_AnyRecipient(st, id, userId) ==
    IF ~Has(st.notifications, id) THEN Result(st, FALSE)
    ELSE Result([st EXCEPT !.notifications[id].isRead = TRUE], TRUE)

Mem_markNotificationRead(st, id, userId) ==
    IF ~Has(st.notifications, id) \/ st.notifications[id].userId # userId
    THEN Result(st, FALSE)
    ELSE Result([st EXCEPT !.notifications[id].isRead = TRUE], TRUE)

\* UPDATE notifications SET is_read = true WHERE id = .. AND user_id = ..
Db_markNotificationRead(st, id, userId) ==
    LET hit == {n \in DOMAIN st.notifications : n = id /\ st.notifications[n].userId = userId}
    IN  Result([st EXCEPT !.notifications =
                    [n \in DOMAIN @ |-> IF n \in hit THEN [@[n] EXCEPT !.isRead = TRUE]
                                        ELSE @[n]]],
               hit # {})

markNotificationRead(impl, st, id, userId) ==
    IF impl = "mem" THEN Mem_markNotificationRead(st, id, userId)
    ELSE Db_markNotificationRead(st, id, userId)

Mem_markAllNotificationsRead(st, userId) ==
    Result([st EXCEPT !.notifications =
                [n \in DOMAIN @ |->
                    IF @[n].userId = userId /\ ~@[n].isRead
                    THEN [@[n] EXCEPT !.isRead = TRUE] ELSE @[n]]],
           TRUE)

\* UPDATE notifications SET is_read = true WHERE user_id = .. AND is_read = false
Db_markAllNotificationsRead(st, userId) ==
    Result([st EXCEPT !.notifications =
                [n \in DOMAIN @ |->
                    IF @[n].userId = userId /\ @[n].isRead = FALSE
                    THEN [@[n] EXCEPT !.isRead = TRUE] ELSE @[n]]],
           TRUE)

markAllNotificationsRead(impl, st, userId) ==
    IF impl = "mem" THEN Mem_markAllNotificationsRead(st, userId)
    ELSE Db_markAllNotificationsRead(st, userId)

\* a count of all the notifications of the user, read or not
Mem_getUnreadNotificationCount_All(st, userId) ==
    Cardinality({n \in DOMAIN st.notifications : st.notifications[n].userId = userId})

Mem_getUnreadNotificationCount(st, userId) ==
    Cardinality({n \in DOMAIN st.notifications :
                    st.notifications[n].userId = userId /\ ~st.notifications[n].isRead})

\* SELECT count(*) FROM notifications WHERE user_id = .. AND is_read = false
Db_getUnreadNotificationCount(st, userId) ==
    Cardinality({n \in DOMAIN st.notifications :
                    st.notifications[n].userId = userId /\ st.notifications[n].isRead = FALSE})

getUnreadNotificationCount(impl, st, userId) ==
    IF impl = "mem" THEN Mem_getUnreadNotificationCount(st, userId)
    ELSE Db_getUnreadNotificationCount(st, userId)

\* users are created one after the other: newest first is highest id first
CreatedOrder(st) == [u \in DOMAIN st.users |-> u]

Mem_getAllUsers(st, limit, offset) ==
    Slice(SortDesc(DOMAIN st.users, CreatedOrder(st)), offset, limit)

Db_getAllUsers(st, limit, offset) ==
    Slice(SortDesc(DOMAIN st.users, CreatedOrder(st)), offset, limit)

getAllUsers(impl, st, limit, offset) ==
    IF impl = "mem" THEN Mem_getAllUsers(st, limit, offset) ELSE Db_getAllUsers(st, limit, offset)

\* every snippet, private ones too; users.get(authorId)! as in the other lists
Mem_getAllSnippets(st, limit, offset) ==
    Mem_withAuthors(st, Slice(SortDesc(DOMAIN st.snippets, UpdatedAt(st)), offset, limit))

Db_getAllSnippets(st, limit, offset) ==
    {Slice(s, offset, limit) : s \in OrderByDesc(Joined(st), UpdatedAt(st))}

getAllSnippets(impl, st, limit, offset) ==
    IF impl = "mem" THEN {Mem_getAllSnippets(st, limit, offset)}
    ELSE Outcomes(st, Db_getAllSnippets(st, limit, offset))

\* ------------------------------------------------------------ route layer
\* A request that is handled without another request running in between.
\* `storage` is the object exported by storage.ts; Cur is its state.
Cur == IF storage = "mem" THEN mem ELSE db

Commit(st) ==
    IF storage = "mem" THEN mem' = st /\ db' = db ELSE db' = st /\ mem' = mem

\* res.status(status).json(...): `shown` are the snippets whose data (title,
\* code) the body carries, `body` the order of a list response
\* `ret`: the request succeeded; `users` are the user objects of the body
ReplyUsers(route, c, id, name, status, body, shown, users) ==
    resp' = [ route |-> route, client |-> c, id |-> id, name |-> name,
              status |-> status, ret |-> status < 400, body |-> body, shown |-> shown,
              users |-> users ]

Reply(route, c, id, name, status, body, shown) ==
    ReplyUsers(route, c, id, name, status, body, shown, <<>>)

\* a user object that keeps every field: what a route would send if it
\* passed the stored user on
WholeUser(user) == user

\* const { password, ...userWithoutPassword } = user
WithoutPassword(user) == [f \in DOMAIN user \ {"password"} |-> user[f]]

\* { id: user.id, username: user.username, ... }: the fields named
Pick(user, fields) == [f \in fields |-> user[f]]

\* author: { id, username, displayName, avatarUrl, profilePicture }
AuthorFields == {"username", "profilePicture"}

\* the author objects of a list of snippets
AuthorsOf(st, list) ==
    [i \in 1..Len(list) |-> Pick(st.users[st.snippets[list[i]].authorId], AuthorFields)]

\* users.map(user => { const { password, ...rest } = user; return rest })
UsersOf(st, ids) == [i \in 1..Len(ids) |-> WithoutPassword(st.users[ids[i]])]

\* a direct call of an IStorage method, by a test or another module: no
\* client and no status, `body` the arguments, `ret` the boolean returned
Returned(method, id, args, ret) ==
    resp' = [ route |-> method, client |-> "", id |-> id, name |-> "",
              status |-> 0, ret |-> ret, body |-> args, shown |-> {}, users |-> <<>> ]

NoResp ==
    [ route |-> "", client |-> "", id |-> 0, name |-> "",
      status |-> 0, ret |-> FALSE, body |-> <<>>, shown |-> {}, users |-> <<>> ]

\* POST /api/auth/register (the body passes insertUserSchema)
Register(c, username, email, password) ==
    /\ storage \in Impls
    /\ LET st == Cur
           r == createUser(storage, st, username, email, password)
       IN  IF getUserByUsername(storage, st, username) # Null
           THEN /\ Reply("POST /api/auth/register", c, 0, username, 400, <<>>, {})
                /\ UNCHANGED <<mem, db, session>>
           ELSE IF getUserByEmail(storage, st, email) # Null
           THEN /\ Reply("POST /api/auth/register", c, 0, username, 400, <<>>, {})
                /\ UNCHANGED <<mem, db, session>>
           ELSE IF r.threw
           THEN /\ Reply("POST /api/auth/register", c, 0, username, 400, <<>>, {})
                /\ UNCHANGED <<mem, db, session>>
           ELSE /\ Commit(r.st)
                /\ session' = [session EXCEPT ![c] = r.ret]
                /\ ReplyUsers("POST /api/auth/register", c, r.ret, username, 200, <<>>, {},
                              <<WithoutPassword(r.st.users[r.ret])>>)
    /\ UNCHANGED <<storage, now, inflight>>

\* verifyPassword that accepts any password of a known username
verifyPassword_AnyPassword(impl, st, username, password) ==
    getUserByUsername(impl, st, username)

\* verifyPassword: bcrypt.compare(password, user.password)
verifyPassword(impl, st, username, password) ==
    LET id == getUserByUsername(impl, st, username)
    IN  IF id # Null /\ st.users[id].password = Hash(password) THEN id ELSE Null

\* POST /api/auth/login
Login(c, username, password) ==
    /\ storage \in Impls
    /\ LET id == verifyPassword(storage, Cur, username, password)
       IN  IF id = Null
           THEN /\ Reply("POST /api/auth/login", c, 0, username, 401, <<>>, {})
                /\ UNCHANGED session
           ELSE /\ session' = [session EXCEPT ![c] = id]
                /\ ReplyUsers("POST /api/auth/login", c, id, username, 200, <<>>, {},
                              <<WithoutPassword(Cur.users[id])>>)
    /\ UNCHANGED <<mem, db, storage, now, inflight>>

\* POST /api/auth/logout: req.session.destroy
Logout(c) ==
    /\ storage \in Impls
    /\ session' = [session EXCEPT ![c] = Null]
    /\ Reply("POST /api/auth/logout", c, 0, "", 200, <<>>, {})
    /\ UNCHANGED <<mem, db, storage, now, inflight>>

AdminUsername == "Felix9390"
AdminEmail == "felix9390@snipply.dev"

\* POST /api/setup/admin
SetupAdmin(c) ==
    /\ storage \in Impls
    /\ LET st == Cur
           r == createAdminUser(storage, st, AdminUsername, AdminEmail, "1234567890", "admin")
       IN  IF getUserByUsername(storage, st, AdminUsername) # Null
           THEN /\ Reply("POST /api/setup/admin", c, 0, AdminUsername, 400, <<>>, {})
                /\ UNCHANGED <<mem, db>>
           ELSE IF r.threw
           THEN /\ Reply("POST /api/setup/admin", c, 0, AdminUsername, 500, <<>>, {})
                /\ UNCHANGED <<mem, db>>
           ELSE /\ Commit(r.st)
                /\ ReplyUsers("POST /api/setup/admin", c, r.ret, AdminUsername, 200, <<>>, {},
                              <<Pick(r.st.users[r.ret], {"username", "rank"})>>)
    /\ UNCHANGED <<storage, session, now, inflight>>

\* GET /api/snippets: the list, then isLiked per snippet for a session user
ListReply(route, c, id, name, outcomes) ==
    \E r \in outcomes :
        IF r.threw THEN Reply(route, c, id, name, 400, <<>>, {})
        ELSE ReplyUsers(route, c, id, name, 200, r.ret, Range(r.ret), AuthorsOf(Cur, r.ret))

\* GET /api/snippets?trending=true&limit= (resp.id keeps the limit asked for)
GetSnippetsTrending(c, limit) ==
    /\ storage \in Impls
    /\ ListReply("GET /api/snippets?trending", c, limit, "",
                 getTrendingSnippets(storage, Cur, limit, now))
    /\ UNCHANGED <<mem, db, storage, session, now, inflight>>

GetSnippetsOfAuthor(c, author) ==
    /\ storage \in Impls
    /\ ListReply("GET /api/snippets?author", c, author, "",
                 getSnippetsByAuthor(storage, Cur, author))
    /\ UNCHANGED <<mem, db, storage, session, now, inflight>>

GetSnippets(c, limit, offset) ==
    /\ storage \in Impls
    /\ ListReply("GET /api/snippets", c, 0, "",
                 getPublicSnippets(storage, Cur, limit, offset))
    /\ UNCHANGED <<mem, db, storage, session, now, inflight>>

\* GET /api/snippets/search?q=
SearchSnippets(c, q) ==
    /\ storage \in Impls
    /\ ListReply("GET /api/snippets/search", c, 0, "",
                 searchSnippets(storage, Cur, q, TRUE))
    /\ UNCHANGED <<mem, db, storage, session, now, inflight>>

\* GET /api/snippets/:id from address ip (req.ip, never empty)
GetSnippet(c, id, ip) ==
    /\ storage \in Impls
    /\ LET st == Cur
           r == incrementViews(storage, st, id, session[c], ip)
       IN  IF ~getSnippetWithAuthor(storage, st, id)
           THEN /\ Reply("GET /api/snippets/:id", c, id, ip, 404, <<>>, {})
                /\ UNCHANGED <<mem, db>>
           ELSE IF ~st.snippets[id].isPublic /\ session[c] # st.snippets[id].authorId
           THEN /\ Reply("GET /api/snippets/:id", c, id, ip, 403, <<>>, {})
                /\ UNCHANGED <<mem, db>>
           ELSE /\ Commit(r.st)
                /\ ReplyUsers("GET /api/snippets/:id", c, id, ip, 200, <<id>>, {id},
                              AuthorsOf(r.st, <<id>>))
    /\ UNCHANGED <<storage, session, now, inflight>>

\* the for-loop over the followers: one createNotification per follower
RECURSIVE NotifyFollowers(_, _, _, _, _)
NotifyFollowers(impl, st, followers, snippetId, fromUserId) ==
    IF followers = <<>> THEN st
    ELSE NotifyFollowers(impl,
                         createNotification(impl, st, Head(followers), snippetId, fromUserId).st,
                         Tail(followers), snippetId, fromUserId)

\* A storage call of the fan-out that rejects (the connection drops, the
\* insert fails): "" is no failure, createNotification1 the first
\* createNotification of the loop, createNotification2 the second
Faults == {"", "getFollowers", "getUser", "createNotification1", "createNotification2"}

\* the number of notifications the loop writes before the failure
Written(fault, followers) ==
    IF fault \in {"getFollowers", "getUser"} THEN 0
    ELSE IF fault = "createNotification1" THEN 0
    ELSE IF fault = "createNotification2" THEN Min(1, Len(followers))
    ELSE Len(followers)

\* POST /api/snippets without the inner try/catch: a failure of the fan-out
\* reaches the outer catch, which answers 400
PostSnippetWith_NoInnerCatch(c, title, isPublic, fault) ==
    /\ storage \in Impls
    /\ IF session[c] = Null
       THEN /\ Reply("POST /api/snippets", c, 0, fault, 401, <<>>, {})
            /\ UNCHANGED <<mem, db>>
       ELSE LET st == Cur
                r == createSnippet(storage, st, title, isPublic, session[c], now)
                followers == ToList(getFollowers(storage, r.st, session[c]))
                notified ==
                    IF isPublic /\ getUser(storage, r.st, session[c])
                    THEN NotifyFollowers(storage, r.st,
                                         SubSeq(followers, 1, Written(fault, followers)),
                                         r.ret, session[c])
                    ELSE r.st
            IN  /\ Commit(notified)
                /\ IF isPublic /\ Written(fault, followers) < Len(followers)
                   THEN Reply("POST /api/snippets", c, r.ret, fault, 400, <<>>, {})
                   ELSE Reply("POST /api/snippets", c, r.ret, fault, 201, <<r.ret>>, {r.ret})
    /\ UNCHANGED <<storage, session, now, inflight>>

\* POST /api/snippets (the body passes insertSnippetSchema) while the storage
\* call `fault` of the fan-out rejects; resp.name keeps the fault
PostSnippetWith(c, title, isPublic, fault) ==
    /\ storage \in Impls
    /\ IF session[c] = Null
       THEN /\ Reply("POST /api/snippets", c, 0, fault, 401, <<>>, {})
            /\ UNCHANGED <<mem, db>>
       ELSE LET st == Cur
                r == createSnippet(storage, st, title, isPublic, session[c], now)
                followers == ToList(getFollowers(storage, r.st, session[c]))
                notified ==
                    IF isPublic /\ getUser(storage, r.st, session[c])
                    THEN NotifyFollowers(storage, r.st,
                                         SubSeq(followers, 1, Written(fault, followers)),
                                         r.ret, session[c])
                    ELSE r.st
            IN  /\ Commit(notified)
                /\ Reply("POST /api/snippets", c, r.ret, fault, 201, <<r.ret>>, {r.ret})
    /\ UNCHANGED <<storage, session, now, inflight>>

\* POST /api/snippets when no storage call fails
PostSnippet(c, title, isPublic) == PostSnippetWith(c, title, isPublic, "")

\* the columns insertSnippetSchema picks
InsertSnippetFields == {"title", "description", "html", "css", "javascript", "isPublic"}

\* a schema that hands every key of the body on
ParseUpdates_Passthrough(body) == body

\* insertSnippetSchema.partial().parse(req.body), for a body whose picked keys
\* hold values of the column's type: the keys the schema does not declare are
\* dropped, no key is required
ParseUpdates(body) == Pick(body, DOMAIN body \cap InsertSnippetFields)

\* PATCH /api/snippets/:id with the body as sent
PatchSnippetBody(c, id, body) ==
    /\ storage \in Impls
    /\ LET st == Cur
       IN  IF session[c] = Null
           THEN /\ Reply("PATCH /api/snippets/:id", c, id, "", 401, <<>>, {})
                /\ UNCHANGED <<mem, db>>
           ELSE IF ~Has(st.snippets, id)
           THEN /\ Reply("PATCH /api/snippets/:id", c, id, "", 404, <<>>, {})
                /\ UNCHANGED <<mem, db>>
           ELSE IF st.snippets[id].authorId # session[c]
           THEN /\ Reply("PATCH /api/snippets/:id", c, id, "", 403, <<>>, {})
                /\ UNCHANGED <<mem, db>>
           ELSE /\ Commit(updateSnippetWith(storage, st, id, ParseUpdates(body), now).st)
                /\ Reply("PATCH /api/snippets/:id", c, id, "", 200, <<id>>, {id})
    /\ UNCHANGED <<storage, session, now, inflight>>

\* PATCH /api/snippets/:id (title and isPublic are the fields of the body)
PatchSnippet(c, id, title, isPublic) ==
    PatchSnippetBody(c, id, [title |-> title, isPublic |-> isPublic])

\* DELETE /api/snippets/:id without the comparison of authorId and session user
DeleteSnippet_NoAuthorCheck(c, id) ==
    /\ storage \in Impls
    /\ LET st == Cur
       IN  IF session[c] = Null
           THEN /\ Reply("DELETE /api/snippets/:id", c, id, "", 401, <<>>, {})
                /\ UNCHANGED <<mem, db>>
           ELSE IF ~Has(st.snippets, id)
           THEN /\ Reply("DELETE /api/snippets/:id", c, id, "", 404, <<>>, {})
                /\ UNCHANGED <<mem, db>>
           ELSE /\ Commit(deleteSnippet(storage, st, id).st)
                /\ Reply("DELETE /api/snippets/:id", c, id, "", 200, <<>>, {})
    /\ UNCHANGED <<storage, session, now, inflight>>

\* DELETE /api/snippets/:id
DeleteSnippet(c, id) ==
    /\ storage \in Impls
    /\ LET st == Cur
       IN  IF session[c] = Null
           THEN /\ Reply("DELETE /api/snippets/:id", c, id, "", 401, <<>>, {})
                /\ UNCHANGED <<mem, db>>
           ELSE IF ~Has(st.snippets, id)
           THEN /\ Reply("DELETE /api/snippets/:id", c, id, "", 404, <<>>, {})
                /\ UNCHANGED <<mem, db>>
           ELSE IF st.snippets[id].authorId # session[c]
           THEN /\ Reply("DELETE /api/snippets/:id", c, id, "", 403, <<>>, {})
                /\ UNCHANGED <<mem, db>>
           ELSE /\ Commit(deleteSnippet(storage, st, id).st)
                /\ Reply("DELETE /api/snippets/:id", c, id, "", 200, <<>>, {})
    /\ UNCHANGED <<storage, session, now, inflight>>

\* POST /api/snippets/:id/like
PostLike(c, id) ==
    /\ storage \in Impls
    /\ IF session[c] = Null
       THEN /\ Reply("POST /api/snippets/:id/like", c, id, "", 401, <<>>, {})
            /\ UNCHANGED <<mem, db>>
       ELSE LET r == likeSnippet(storage, Cur, id, session[c])
            IN  /\ Commit(r.st)
                /\ Reply("POST /api/snippets/:id/like", c, id, "",
                         IF r.ret THEN 200 ELSE 400, <<>>, {})
    /\ UNCHANGED <<storage, session, now, inflight>>

\* DELETE /api/snippets/:id/like
DeleteLike(c, id) ==
    /\ storage \in Impls
    /\ IF session[c] = Null
       THEN /\ Reply("DELETE /api/snippets/:id/like", c, id, "", 401, <<>>, {})
            /\ UNCHANGED <<mem, db>>
       ELSE LET r == unlikeSnippet(storage, Cur, id, session[c])
            IN  /\ Commit(r.st)
                /\ Reply("DELETE /api/snippets/:id/like", c, id, "",
                         IF r.ret THEN 200 ELSE 400, <<>>, {})
    /\ UNCHANGED <<storage, session, now, inflight>>

\* snippet.likes of each snippet of a response, lowest id first
LikesOf(st, ids) ==
    LET order == SortDesc(ids, [s \in ids |-> 0 - s])
    IN  [i \in 1..Len(order) |-> st.snippets[order[i]].likes]

\* GET /api/users/:username/liked (resp.body: the likes counters sent)
GetLiked(c, username) ==
    /\ storage \in Impls
    /\ LET id == getUserByUsername(storage, Cur, username)
       IN  IF id = Null
           THEN Reply("GET /api/users/:username/liked", c, 0, username, 404, <<>>, {})
           ELSE Reply("GET /api/users/:username/liked", c, id, username, 200,
                      LikesOf(Cur, getLikedSnippetsByUser(storage, Cur, id)),
                      getLikedSnippetsByUser(storage, Cur, id))
    /\ UNCHANGED <<mem, db, storage, session, now, inflight>>

\* POST /api/users/:username/follow
PostFollow(c, username) ==
    /\ storage \in Impls
    /\ LET st == Cur
           id == getUserByUsername(storage, st, username)
           r == followUser(storage, st, session[c], id)
       IN  IF session[c] = Null
           THEN /\ Reply("POST /api/users/:username/follow", c, 0, username, 401, <<>>, {})
                /\ UNCHANGED <<mem, db>>
           ELSE IF id = Null
           THEN /\ Reply("POST /api/users/:username/follow", c, 0, username, 404, <<>>, {})
                /\ UNCHANGED <<mem, db>>
           ELSE IF id = session[c]
           THEN /\ Reply("POST /api/users/:username/follow", c, id, username, 400, <<>>, {})
                /\ UNCHANGED <<mem, db>>
           ELSE /\ Commit(r.st)
                /\ Reply("POST /api/users/:username/follow", c, id, username,
                         IF r.ret THEN 200 ELSE 400, <<>>, {})
    /\ UNCHANGED <<storage, session, now, inflight>>

\* DELETE /api/users/:username/follow
DeleteFollow(c, username) ==
    /\ storage \in Impls
    /\ LET st == Cur
           id == getUserByUsername(storage, st, username)
           r == unfollowUser(storage, st, session[c], id)
       IN  IF session[c] = Null
           THEN /\ Reply("DELETE /api/users/:username/follow", c, 0, username, 401, <<>>, {})
                /\ UNCHANGED <<mem, db>>
           ELSE IF id = Null
           THEN /\ Reply("DELETE /api/users/:username/follow", c, 0, username, 404, <<>>, {})
                /\ UNCHANGED <<mem, db>>
           ELSE /\ Commit(r.st)
                /\ Reply("DELETE /api/users/:username/follow", c, id, username,
                         IF r.ret THEN 200 ELSE 400, <<>>, {})
    /\ UNCHANGED <<storage, session, now, inflight>>

\* result.fromUser = { id, username, displayName, profilePicture } of the
\* notifications whose sender still exists, newest notification first
FromUsers(st, ns) ==
    LET withSender == {n \in ns : Has(st.users, st.notifications[n].fromUserId)}
        order == SortDesc(withSender, [n \in withSender |-> n])
    IN  [i \in 1..Len(order) |->
            Pick(st.users[st.notifications[order[i]].fromUserId], AuthorFields)]

\* GET /api/notifications
GetNotifications(c) ==
    /\ storage \in Impls
    /\ IF session[c] = Null
       THEN Reply("GET /api/notifications", c, 0, "", 401, <<>>, {})
       ELSE ReplyUsers("GET /api/notifications", c, 0, "", 200, <<>>,
                       NotificationSnippets(Cur, getNotifications(storage, Cur, session[c])),
                       FromUsers(Cur, getNotifications(storage, Cur, session[c])))
    /\ UNCHANGED <<mem, db, storage, session, now, inflight>>

\* GET /api/auth/me
GetMe(c) ==
    /\ storage \in Impls
    /\ IF session[c] = Null
       THEN Reply("GET /api/auth/me", c, 0, "", 401, <<>>, {})
       ELSE IF ~getUser(storage, Cur, session[c])
       THEN Reply("GET /api/auth/me", c, session[c], "", 404, <<>>, {})
       ELSE ReplyUsers("GET /api/auth/me", c, session[c], "", 200, <<>>, {},
                       <<WithoutPassword(Cur.users[session[c]])>>)
    /\ UNCHANGED <<mem, db, storage, session, now, inflight>>

\* the counts getUserProfile adds to ...user
Profile(st, id) ==
    [f \in DOMAIN st.users[id] \cup {"snippetsCount", "followersCount"} |->
        IF f = "snippetsCount"
        THEN Cardinality({s \in DOMAIN st.snippets :
                            st.snippets[s].authorId = id /\ st.snippets[s].isPublic})
        ELSE IF f = "followersCount"
        THEN BagCardinality([r \in {x \in Rows(st.follows) : x.followingId = id}
                                |-> st.follows[r]])
        ELSE st.users[id][f]]

\* GET /api/users/:username
GetUser(c, username) ==
    /\ storage \in Impls
    /\ LET id == getUserByUsername(storage, Cur, username)
       IN  IF id = Null
           THEN Reply("GET /api/users/:username", c, 0, username, 404, <<>>, {})
           ELSE ReplyUsers("GET /api/users/:username", c, id, username, 200, <<>>, {},
                           <<WithoutPassword(Profile(Cur, id))>>)
    /\ UNCHANGED <<mem, db, storage, session, now, inflight>>

\* GET /api/my-snippets
GetMySnippets(c) ==
    /\ storage \in Impls
    /\ IF session[c] = Null
       THEN Reply("GET /api/my-snippets", c, 0, "", 401, <<>>, {})
       ELSE ListReply("GET /api/my-snippets", c, session[c], "",
                      getUserOwnSnippets(storage, Cur, session[c]))
    /\ UNCHANGED <<mem, db, storage, session, now, inflight>>

\* GET /api/following
GetFollowing(c) ==
    /\ storage \in Impls
    /\ IF session[c] = Null
       THEN Reply("GET /api/following", c, 0, "", 401, <<>>, {})
       ELSE ReplyUsers("GET /api/following", c, session[c], "", 200, <<>>, {},
                       UsersOf(Cur, ToList(getFollowing(storage, Cur, session[c]))))
    /\ UNCHANGED <<mem, db, storage, session, now, inflight>>

\* GET /api/followers
GetFollowers(c) ==
    /\ storage \in Impls
    /\ IF session[c] = Null
       THEN Reply("GET /api/followers", c, 0, "", 401, <<>>, {})
       ELSE ReplyUsers("GET /api/followers", c, session[c], "", 200, <<>>, {},
                       UsersOf(Cur, ToList(getFollowers(storage, Cur, session[c]))))
    /\ UNCHANGED <<mem, db, storage, session, now, inflight>>

\* PUT /api/notifications/:id/read
PutNotificationRead(c, id) ==
    /\ storage \in Impls
    /\ IF session[c] = Null
       THEN /\ Reply("PUT /api/notifications/:id/read", c, id, "", 401, <<>>, {})
            /\ UNCHANGED <<mem, db>>
       ELSE LET r == markNotificationRead(storage, Cur, id, session[c])
            IN  /\ Commit(r.st)
                /\ Reply("PUT /api/notifications/:id/read", c, id, "",
                         IF r.ret THEN 200 ELSE 404, <<>>, {})
    /\ UNCHANGED <<storage, session, now, inflight>>

\* PUT /api/notifications/read-all
PutNotificationsReadAll(c) ==
    /\ storage \in Impls
    /\ IF session[c] = Null
       THEN /\ Reply("PUT /api/notifications/read-all", c, 0, "", 401, <<>>, {})
            /\ UNCHANGED <<mem, db>>
       ELSE /\ Commit(markAllNotificationsRead(storage, Cur, session[c]).st)
            /\ Reply("PUT /api/notifications/read-all", c, session[c], "", 200, <<>>, {})
    /\ UNCHANGED <<storage, session, now, inflight>>

\* GET /api/notifications/unread-count (resp.body carries the count)
GetUnreadCount(c) ==
    /\ storage \in Impls
    /\ IF session[c] = Null
       THEN Reply("GET /api/notifications/unread-count", c, 0, "", 401, <<>>, {})
       ELSE Reply("GET /api/notifications/unread-count", c, session[c], "", 200,
                  <<getUnreadNotificationCount(storage, Cur, session[c])>>, {})
    /\ UNCHANGED <<mem, db, storage, session, now, inflight>>

\* PUT /api/profile/picture; profilePicture "" stands for a missing one
PutProfilePicture(c, profilePicture) ==
    /\ storage \in Impls
    /\ IF session[c] = Null
       THEN /\ Reply("PUT /api/profile/picture", c, 0, "", 401, <<>>, {})
            /\ UNCHANGED <<mem, db>>
       ELSE IF profilePicture = ""
       THEN /\ Reply("PUT /api/profile/picture", c, session[c], "", 400, <<>>, {})
            /\ UNCHANGED <<mem, db>>
       ELSE LET r == updateUser(storage, Cur, session[c],
                                [profilePicture |-> profilePicture])
            IN  IF r.ret = Null
                THEN /\ Reply("PUT /api/profile/picture", c, session[c], "", 404, <<>>, {})
                     /\ UNCHANGED <<mem, db>>
                ELSE /\ Commit(r.st)
                     /\ ReplyUsers("PUT /api/profile/picture", c, session[c], "", 200,
                                   <<>>, {}, <<WithoutPassword(r.st.users[r.ret])>>)
    /\ UNCHANGED <<storage, session, now, inflight>>

\* requireAdmin that lets every signed-in user through
requireAdmin_NoRankCheck(impl, st, userId) ==
    IF userId = Null THEN 401 ELSE 0

\* requireAdmin: 0 when the request may proceed
requireAdmin(impl, st, userId) ==
    IF userId = Null THEN 401
    ELSE IF ~getUser(impl, st, userId) \/ st.users[userId].rank # "admin" THEN 403
    ELSE 0

\* DELETE /api/admin/users/:id
AdminDeleteUser(c, id) ==
    /\ storage \in Impls
    /\ LET st == Cur
           gate == requireAdmin(storage, st, session[c])
       IN  IF gate # 0
           THEN /\ Reply("DELETE /api/admin/users/:id", c, id, "", gate, <<>>, {})
                /\ UNCHANGED <<mem, db>>
           ELSE IF id = session[c]
           THEN /\ Reply("DELETE /api/admin/users/:id", c, id, "", 400, <<>>, {})
                /\ UNCHANGED <<mem, db>>
           ELSE IF ~getUser(storage, st, id)
           THEN /\ Reply("DELETE /api/admin/users/:id", c, id, "", 404, <<>>, {})
                /\ UNCHANGED <<mem, db>>
           ELSE /\ Commit(deleteUserAndSnippets(storage, st, id).st)
                /\ Reply("DELETE /api/admin/users/:id", c, id, "", 200, <<>>, {})
    /\ UNCHANGED <<storage, session, now, inflight>>

\* GET /api/admin/users (no search term)
AdminGetUsers(c, limit, offset) ==
    /\ storage \in Impls
    /\ LET gate == requireAdmin(storage, Cur, session[c])
       IN  IF gate # 0
           THEN Reply("GET /api/admin/users", c, 0, "", gate, <<>>, {})
           ELSE ReplyUsers("GET /api/admin/users", c, 0, "", 200, <<>>, {},
                           UsersOf(Cur, getAllUsers(storage, Cur, limit, offset)))
    /\ UNCHANGED <<mem, db, storage, session, now, inflight>>

\* GET /api/admin/snippets
AdminGetSnippets(c, limit, offset) ==
    /\ storage \in Impls
    /\ LET gate == requireAdmin(storage, Cur, session[c])
       IN  IF gate # 0
           THEN Reply("GET /api/admin/snippets", c, 0, "", gate, <<>>, {})
           ELSE ListReply("GET /api/admin/snippets", c, 0, "",
                          getAllSnippets(storage, Cur, limit, offset))
    /\ UNCHANGED <<mem, db, storage, session, now, inflight>>

\* DELETE /api/admin/snippets/:id
AdminDeleteSnippet(c, id) ==
    /\ storage \in Impls
    /\ LET st == Cur
           gate == requireAdmin(storage, st, session[c])
       IN  IF gate # 0
           THEN /\ Reply("DELETE /api/admin/snippets/:id", c, id, "", gate, <<>>, {})
                /\ UNCHANGED <<mem, db>>
           ELSE IF ~getSnippet(storage, st, id)
           THEN /\ Reply("DELETE /api/admin/snippets/:id", c, id, "", 404, <<>>, {})
                /\ UNCHANGED <<mem, db>>
           ELSE /\ Commit(deleteSnippet(storage, st, id).st)
                /\ Reply("DELETE /api/admin/snippets/:id", c, id, "", 200, <<>>, {})
    /\ UNCHANGED <<storage, session, now, inflight>>

\* the ranks a request can ask for; "" is a body without rank
Ranks == {"admin", "default", "owner", ""}

\* ['admin', 'default']
ValidRanks == {"admin", "default"}

\* PATCH /api/admin/users/:id/rank (resp.name keeps the rank asked for)
AdminPatchRank(c, id, rank) ==
    /\ storage \in Impls
    /\ LET st == Cur
           gate == requireAdmin(storage, st, session[c])
           r == updateUser(storage, st, id, [rank |-> rank])
       IN  IF gate # 0
           THEN /\ Reply("PATCH /api/admin/users/:id/rank", c, id, rank, gate, <<>>, {})
                /\ UNCHANGED <<mem, db>>
           ELSE IF rank \notin ValidRanks
           THEN /\ Reply("PATCH /api/admin/users/:id/rank", c, id, rank, 400, <<>>, {})
                /\ UNCHANGED <<mem, db>>
           ELSE IF id = session[c] /\ rank = "default"
           THEN /\ Reply("PATCH /api/admin/users/:id/rank", c, id, rank, 400, <<>>, {})
                /\ UNCHANGED <<mem, db>>
           ELSE IF ~getUser(storage, st, id)
           THEN /\ Reply("PATCH /api/admin/users/:id/rank", c, id, rank, 404, <<>>, {})
                /\ UNCHANGED <<mem, db>>
           ELSE IF r.ret = Null
           THEN /\ Reply("PATCH /api/admin/users/:id/rank", c, id, rank, 500, <<>>, {})
                /\ UNCHANGED <<mem, db>>
           ELSE /\ Commit(r.st)
                /\ ReplyUsers("PATCH /api/admin/users/:id/rank", c, id, rank, 200, <<>>, {},
                              <<WithoutPassword(r.st.users[id])>>)
    /\ UNCHANGED <<storage, session, now, inflight>>

\* GET /api/admin/stats (resp.body: totalUsers, totalSnippets)
AdminStats(c) ==
    /\ storage \in Impls
    /\ LET gate == requireAdmin(storage, Cur, session[c])
       IN  IF gate # 0
           THEN Reply("GET /api/admin/stats", c, 0, "", gate, <<>>, {})
           ELSE \E r \in getAllSnippets(storage, Cur, 1000, 0) :
                    IF r.threw THEN Reply("GET /api/admin/stats", c, 0, "", 400, <<>>, {})
                    ELSE Reply("GET /api/admin/stats", c, 0, "", 200,
                               <<Len(getAllUsers(storage, Cur, 1000, 0)), Len(r.ret)>>, {})
    /\ UNCHANGED <<mem, db, storage, session, now, inflight>>

\* storage.deleteUserAndSnippets(userId), called directly
CallDeleteUserAndSnippets(userId) ==
    /\ storage \in Impls
    /\ LET r == deleteUserAndSnippets(storage, Cur, userId)
       IN  Commit(r.st) /\ Returned("deleteUserAndSnippets", userId, <<userId>>, r.ret)
    /\ UNCHANGED <<storage, session, now, inflight>>

\* storage.markNotificationRead(id, userId), called directly
CallMarkNotificationRead(id, userId) ==
    /\ storage \in Impls
    /\ LET r == markNotificationRead(storage, Cur, id, userId)
       IN  Commit(r.st) /\ Returned("markNotificationRead", id, <<id, userId>>, r.ret)
    /\ UNCHANGED <<storage, session, now, inflight>>

\* storage.markAllNotificationsRead(userId), called directly
CallMarkAllNotificationsRead(userId) ==
    /\ storage \in Impls
    /\ Commit(markAllNotificationsRead(storage, Cur, userId).st)
    /\ Returned("markAllNotificationsRead", userId, <<userId>>, TRUE)
    /\ UNCHANGED <<storage, session, now, inflight>>

\* storage.getUnreadNotificationCount(userId), called directly; the count
\* returned is the second element of resp.body
CallGetUnreadNotificationCount(userId) ==
    /\ storage \in Impls
    /\ Returned("getUnreadNotificationCount", userId,
                <<userId, getUnreadNotificationCount(storage, Cur, userId)>>, TRUE)
    /\ UNCHANGED <<mem, db, storage, session, now, inflight>>

\* storage.likeSnippet(id, userId) and then storage.unlikeSnippet(id, userId),
\* called directly one after the other; `ret`: both returned true
CallLikeThenUnlike(id, userId) ==
    /\ storage \in Impls
    /\ LET liked == likeSnippet(storage, Cur, id, userId)
           unliked == unlikeSnippet(storage, liked.st, id, userId)
       IN  /\ Commit(unliked.st)
           /\ Returned("likeSnippet, unlikeSnippet", id, <<id, userId>>,
                       liked.ret /\ unliked.ret)
    /\ UNCHANGED <<storage, session, now, inflight>>

\* storage.followUser(followerId, followingId), called directly
CallFollowUser(followerId, followingId) ==
    /\ storage \in Impls
    /\ LET r == followUser(storage, Cur, followerId, followingId)
       IN  Commit(r.st) /\ Returned("followUser", followerId, <<followerId, followingId>>, r.ret)
    /\ UNCHANGED <<storage, session, now, inflight>>

\* time passes
Tick ==
    /\ now < MaxTime
    /\ now' = now + 1
    /\ UNCHANGED <<mem, db, storage, session, resp, inflight>>

\* ------------------------------------------------------------ environment
\* Two browsers.  Each signs up with its own name and address, posts
\* snippets with one of two titles, and comes from one of two addresses.
Clients == {"c1", "c2"}

\* accounts are capped at one per client
MaxUsers == Cardinality(Clients)
NameOf == [c \in Clients |-> IF c = "c1" THEN "alice" ELSE "bob"]
MailOf == [c \in Clients |-> IF c = "c1" THEN "alice@x" ELSE "bob@x"]
Password == "secret"
Ips == {"ip1", "ip2"}
\* c1 moves between two addresses, c2 sits behind the second of them
IpsOf == [c \in Clients |-> IF c = "c1" THEN Ips ELSE {"ip2"}]
TitleA == <<"a">>
TitleB == <<"A", "b">>

\* ids a request can name: those handed out so far (a deleted row's id is
\* the id of a row that does not exist)
SnippetIds == 1..Cur.snippetSeq
UserIds == 1..Cur.userSeq

Init ==
    /\ mem = EmptyStore
    /\ db = EmptyStore
    /\ storage \in Impls
    /\ session = [c \in Clients |-> Null]
    /\ now = 0
    /\ resp = NoResp
    /\ inflight = <<>>

\* --------------------------------------------------- likes, one at a time
NextLikes ==
    \/ \E c \in Clients : Register(c, NameOf[c], MailOf[c], Password)
    \/ \E c \in Clients : Cur.snippetSeq < LikesMaxSnippets /\ PostSnippet(c, TitleA, TRUE)
    \/ \E c \in Clients, id \in SnippetIds : DeleteSnippet(c, id)
    \/ \E c \in Clients, id \in SnippetIds : PostLike(c, id)
    \/ \E c \in Clients, id \in SnippetIds : DeleteLike(c, id)

SpecLikes == Init /\ [][NextLikes]_vars

\* C1: when the session user already has a like on snippet s, a further
\* POST /api/snippets/s/like (likeSnippet returning false) answers 400 and
\* leaves the store - the like records and s.likes - as it was, under
\* MemStorage and under DatabaseStorage.
C1_SecondLikeIsNoOp ==
    [][\A c \in Clients, s \in SnippetIds :
          (PostLike(c, s) /\ session[c] # Null
              /\ isSnippetLiked(storage, Cur, s, session[c]))
          => (resp'.status = 400 /\ mem' = mem /\ db' = db)]_vars

\* a like was refused for a snippet that exists and carries the user's like
C1_Witness ==
    /\ resp.route = "POST /api/snippets/:id/like"
    /\ resp.status = 400
    /\ session[resp.client] # Null
    /\ Has(Cur.snippets, resp.id)
    /\ Cur.snippets[resp.id].likes = 1
    /\ CopiesIn(Like(resp.id, session[resp.client]), Cur.snippetLikes) = 1

\* --------------------------------------------------- views, one at a time
NextViews ==
    \/ \E c \in Clients : Register(c, NameOf[c], MailOf[c], Password)
    \/ \E c \in Clients : Logout(c)
    \/ \E c \in Clients : Cur.snippetSeq < ViewsMaxSnippets /\ PostSnippet(c, TitleA, TRUE)
    \/ \E c \in Clients, id \in SnippetIds : \E ip \in IpsOf[c] : GetSnippet(c, id, ip)

SpecViews == Init /\ [][NextViews]_vars

\* the viewer identity of a request or of a view row: the session user, or
\* the address when there is no session
ViewedBy(st, s, userId, ip) ==
    \E v \in Rows(st.snippetViews) :
        /\ v.snippetId = s
        /\ IF userId # Null THEN v.userId = userId
           ELSE v.userId = Null /\ v.ipAddress = ip

OneViewPerIdentity(st) ==
    /\ \A v \in Rows(st.snippetViews) : CopiesIn(v, st.snippetViews) = 1
    /\ \A v, w \in Rows(st.snippetViews) :
          (v.snippetId = w.snippetId /\ v.userId # Null /\ v.userId = w.userId) => v = w
    /\ \A s \in DOMAIN st.snippets :
          st.snippets[s].views =
              Cardinality({v \in Rows(st.snippetViews) : v.snippetId = s})

NextCascade ==
    \/ \E c \in Clients : Cur.userSeq < MaxUsers /\ Register(c, NameOf[c], MailOf[c], Password)
    \/ \E c \in Clients :
          /\ Cur.snippetSeq < CascadeMaxSnippets
          /\ Has(Cur.users, session[c])
          /\ PostSnippet(c, TitleA, TRUE)
    \/ \E c \in Clients, id \in DOMAIN Cur.snippets :
          Has(Cur.users, session[c]) /\ PostLike(c, id)
    \/ \E c \in Clients, id \in DOMAIN Cur.snippets :
          Has(Cur.users, session[c]) /\ GetSnippet(c, id, "ip2")
    \/ \E c, d \in Clients :
          c # d /\ Has(Cur.users, session[c]) /\ PostFollow(c, NameOf[d])
    \/ \E u \in DOMAIN Cur.users : CallDeleteUserAndSnippets(u)

SpecCascade == Init /\ [][NextCascade]_vars

SnippetsOf(st, u) == {s \in DOMAIN st.snippets : st.snippets[s].authorId = u}

\* nothing of user u is left in `new`
Gone(old, new, u) ==
    /\ ~Has(new.users, u)
    /\ SnippetsOf(new, u) = {}
    /\ \A l \in Rows(new.snippetLikes) : l.userId # u /\ l.snippetId \notin SnippetsOf(old, u)
    /\ \A v \in Rows(new.snippetViews) : v.userId # u /\ v.snippetId \notin SnippetsOf(old, u)
    /\ \A f \in Rows(new.follows) : f.followerId # u /\ f.followingId # u
    /\ \A n \in DOMAIN new.notifications :
          new.notifications[n].userId # u /\ new.notifications[n].fromUserId # u

\* what does not refer to u or to a snippet of u is in `new` as it was in `old`
OthersKept(old, new, u) ==
    /\ \A x \in DOMAIN old.users \ {u} : Has(new.users, x) /\ new.users[x] = old.users[x]
    /\ \A s \in DOMAIN old.snippets \ SnippetsOf(old, u) :
          Has(new.snippets, s) /\ new.snippets[s] = old.snippets[s]
    /\ \A l \in Rows(old.snippetLikes) :
          (l.userId # u /\ l.snippetId \notin SnippetsOf(old, u))
          => CopiesIn(l, new.snippetLikes) = CopiesIn(l, old.snippetLikes)
    /\ \A v \in Rows(old.snippetViews) :
          (v.userId # u /\ v.snippetId \notin SnippetsOf(old, u))
          => CopiesIn(v, new.snippetViews) = CopiesIn(v, old.snippetViews)
    /\ \A f \in Rows(old.follows) :
          (f.followerId # u /\ f.followingId # u)
          => CopiesIn(f, new.follows) = CopiesIn(f, old.follows)
    /\ \A n \in DOMAIN old.notifications :
          (old.notifications[n].userId # u /\ old.notifications[n].fromUserId # u)
          => Has(new.notifications, n) /\ new.notifications[n] = old.notifications[n]

\* C3: when deleteUserAndSnippets(u) returns true, the store afterwards holds
\* no user u, no snippet of u, no like or view made by u or attached to a
\* snippet of u, no follow row with u on either side and no notification to
\* or from u; every record that refers neither to u nor to a snippet of u is
\* unchanged.
C3_DeleteUserCascades ==
    [][\A u \in UserIds :
          (CallDeleteUserAndSnippets(u) /\ resp'.ret)
          => (Gone(Cur, Cur', u) /\ OthersKept(Cur, Cur', u))]_vars

\* a user was deleted whose snippet, follower and notification went along,
\* while a like and a view of the other user on a snippet of her own stay
C3_Witness ==
    /\ resp.route = "deleteUserAndSnippets"
    /\ resp.ret
    /\ Cur.userSeq = 2 /\ Cardinality(DOMAIN Cur.users) = 1
    /\ Cur.notificationSeq >= 1 /\ Cur.notifications = <<>>
    /\ Cur.snippetLikes = EmptyBag /\ Cur.follows = EmptyBag
    /\ Cur.snippetSeq >= 1

\* ------------------------------------------------- who sees a private snippet
NextVisibility ==
    \/ \E c \in Clients : Register(c, NameOf[c], MailOf[c], Password)
    \/ \E c \in Clients, isPublic \in BOOLEAN :
          Cur.snippetSeq < VisibilityMaxSnippets /\ PostSnippet(c, TitleA, isPublic)
    \/ \E c \in Clients, id \in SnippetIds, isPublic \in BOOLEAN :
          PatchSnippet(c, id, TitleA, isPublic)
    \/ \E c, d \in Clients : PostFollow(c, NameOf[d])
    \/ \E c \in Clients, id \in SnippetIds : PostLike(c, id)
    \/ \E c \in Clients, id \in SnippetIds : GetSnippet(c, id, "ip2")
    \/ \E c \in Clients : GetSnippets(c, 50, 0)
    \/ \E c \in Clients, u \in UserIds : GetSnippetsOfAuthor(c, u)
    \/ \E c \in Clients : GetSnippetsTrending(c, 50)
    \/ \E c \in Clients : SearchSnippets(c, TitleA)
    \/ \E c, d \in Clients : GetLiked(c, NameOf[d])
    \/ \E c \in Clients : GetNotifications(c)

SpecVisibility == Init /\ [][NextVisibility]_vars

\* the requester of the last response may see private snippet s
MaySeePrivate(st, c, s) ==
    \/ session[c] = st.snippets[s].authorId
    \/ Has(st.users, session[c]) /\ st.users[session[c]].rank = "admin"

\* C4: no response of GET /api/snippets/:id, GET /api/snippets (plain, by
\* author, trending), the search, the liked list or the notifications carries
\* data of a snippet that is private at that moment to a requester who is
\* neither its author nor an admin -- also when the snippet was public before.
C4_PrivateNeverShown ==
    \A s \in resp.shown :
        (Has(Cur.snippets, s) /\ ~Cur.snippets[s].isPublic)
        => MaySeePrivate(Cur, resp.client, s)

\* ------------------------------------------------------------ trending list
\* one browser posts, likes and asks for the trending list while days pass
NextTrending ==
    \/ Register("c1", NameOf["c1"], MailOf["c1"], Password)
    \/ \E isPublic \in BOOLEAN :
          Cur.snippetSeq < TrendingMaxSnippets /\ PostSnippet("c1", TitleA, isPublic)
    \/ \E id \in SnippetIds : PostLike("c1", id)
    \/ \E limit \in 1..TrendingMaxSnippets : GetSnippetsTrending("c1", limit)
    \/ Tick

SpecTrending == Init /\ [][NextTrending]_vars

\* `list` is a trending list of store st asked for at time `at`
IsTrendingList(st, at, limit, list) ==
    /\ Len(list) <= limit
    /\ \A i \in DOMAIN list :
          /\ Has(st.snippets, list[i])
          /\ st.snippets[list[i]].isPublic
          /\ st.snippets[list[i]].createdAt >= at - TrendingWindowDays
    /\ \A i, j \in DOMAIN list : i < j => Score(st)[list[i]] >= Score(st)[list[j]]

\* C5: the trending list holds only public snippets created within the 7
\* days before the call, in non-increasing order of likes+views, and at most
\* `limit` of them.
C5_TrendingContract ==
    [][\A limit \in 1..TrendingMaxSnippets :
          GetSnippetsTrending("c1", limit)
          => (resp'.status = 200 /\ IsTrendingList(Cur, now, limit, resp'.body))]_vars

\* ------------------------------------------------------------ registration
\* the browsers sign up with any of the names and addresses, the admin's too
Usernames == {"alice", "bob", AdminUsername}
Emails == {"alice@x", AdminEmail}

NextAuth ==
    \/ \E c \in Clients, n \in Usernames, e \in Emails : Register(c, n, e, Password)
    \/ \E c \in Clients, n \in Usernames, p \in {Password, "1234567890"} : Login(c, n, p)
    \/ \E c \in Clients : Logout(c)
    \/ \E c \in Clients : SetupAdmin(c)

SpecAuth == Init /\ [][NextAuth]_vars

UsernameTaken(st, n) == \E u \in DOMAIN st.users : st.users[u].username = n
EmailTaken(st, e) == \E u \in DOMAIN st.users : st.users[u].email = e

\* C6: a register request whose username or whose email is that of an
\* existing user is answered 400, creates no user and leaves the session as
\* it was.
C6_DuplicateRegisterRejected ==
    [][\A c \in Clients, n \in Usernames, e \in Emails :
          (Register(c, n, e, Password) /\ (UsernameTaken(Cur, n) \/ EmailTaken(Cur, e)))
          => (resp'.status = 400 /\ mem' = mem /\ db' = db /\ session' = session)]_vars

\* a register with a fresh username was refused for its email, by a browser
\* without a session
C6_Witness ==
    /\ resp.route = "POST /api/auth/register"
    /\ resp.status = 400
    /\ ~UsernameTaken(Cur, resp.name)
    /\ session[resp.client] = Null
    /\ Cardinality(DOMAIN Cur.users) = 2

\* ------------------------------------------- the two storages side by side
\* A MemStorage and a DatabaseStorage, both empty, receive the same calls.
InitEquiv ==
    /\ mem = EmptyStore
    /\ db = EmptyStore
    /\ storage = "both"
    /\ session = [c \in Clients |-> Null]
    /\ now = 0
    /\ resp = NoResp
    /\ inflight = <<>>

\* what a caller sees of a result: thrown or not, the value, and for a list
\* the counters and title of its snippets
Listed(r) ==
    [ threw |-> r.threw,
      list |-> [i \in DOMAIN r.ret |->
                  [ id |-> r.ret[i],
                    title |-> r.st.snippets[r.ret[i]].title,
                    likes |-> r.st.snippets[r.ret[i]].likes,
                    views |-> r.st.snippets[r.ret[i]].views ]] ]

Value(r) == [threw |-> r.threw, value |-> r.ret]

\* one call made on both storages; resp.ret says that the database may
\* answer what the memory storage answers
Both(method, id, m, d, same) ==
    /\ storage = "both"
    /\ mem' = m.st
    /\ db' = d.st
    /\ resp' = [ route |-> method, client |-> "", id |-> id, name |-> "",
                 status |-> 0, ret |-> same, body |-> <<>>, shown |-> {} ]
    /\ UNCHANGED <<storage, session, now, inflight>>

BothCall(method, id, m, d) == Both(method, id, m, d, Value(m) = Value(d))

BothQuery(method, id, ms, ds) ==
    \E m \in ms : \E d \in ds :
        Both(method, id, m, d, Listed(m) \in {Listed(x) : x \in ds})

NextEquiv ==
    \/ \E c \in Clients :
          /\ ~UsernameTaken(mem, NameOf[c])
          /\ mem.userSeq < MaxUsers
          /\ BothCall("createUser", 0,
                      createUser("mem", mem, NameOf[c], MailOf[c], Password),
                      createUser("db", db, NameOf[c], MailOf[c], Password))
    \/ \E title \in {TitleA, TitleB}, isPublic \in BOOLEAN, u \in DOMAIN mem.users :
          /\ mem.snippetSeq < EquivMaxSnippets
          /\ BothCall("createSnippet", 0,
                      createSnippet("mem", mem, title, isPublic, u, now),
                      createSnippet("db", db, title, isPublic, u, now))
    \/ \E id \in 1..mem.snippetSeq :
          BothCall("updateSnippet", 0,
                   updateSnippet("mem", mem, id, TitleA, TRUE, now),
                   updateSnippet("db", db, id, TitleA, TRUE, now))
    \/ \E id \in 1..mem.snippetSeq :
          BothCall("deleteSnippet", 0,
                   deleteSnippet("mem", mem, id), deleteSnippet("db", db, id))
    \/ \E id \in 1..mem.snippetSeq, u \in DOMAIN mem.users :
          BothCall("likeSnippet", 0,
                   likeSnippet("mem", mem, id, u), likeSnippet("db", db, id, u))
    \/ \E id \in 1..mem.snippetSeq, u \in DOMAIN mem.users :
          BothCall("unlikeSnippet", 0,
                   unlikeSnippet("mem", mem, id, u), unlikeSnippet("db", db, id, u))
    \/ \E id \in 1..mem.snippetSeq, u \in DOMAIN mem.users :
          BothCall("incrementViews", 0,
                   incrementViews("mem", mem, id, u, "ip1"),
                   incrementViews("db", db, id, u, "ip1"))
    \/ \E u, v \in DOMAIN mem.users :
          BothCall("followUser", 0,
                   followUser("mem", mem, u, v), followUser("db", db, u, v))
    \/ \E u, v \in DOMAIN mem.users :
          BothCall("unfollowUser", 0,
                   unfollowUser("mem", mem, u, v), unfollowUser("db", db, u, v))
    \/ \E u \in DOMAIN mem.users :
          BothCall("deleteUserAndSnippets", 0,
                   deleteUserAndSnippets("mem", mem, u), deleteUserAndSnippets("db", db, u))
    \/ \E u \in DOMAIN mem.users :
          BothQuery("getSnippetsByAuthor", 0,
                    getSnippetsByAuthor("mem", mem, u), getSnippetsByAuthor("db", db, u))
    \/ \E limit \in 1..EquivMaxSnippets :
          BothQuery("getPublicSnippets", 0,
                    getPublicSnippets("mem", mem, limit, 0),
                    getPublicSnippets("db", db, limit, 0))
    \/ \E limit \in 1..EquivMaxSnippets :
          BothQuery("getTrendingSnippets", 0,
                    getTrendingSnippets("mem", mem, limit, now),
                    getTrendingSnippets("db", db, limit, now))
    \/ \E q \in {TitleA, TitleB} :
          BothQuery("searchSnippets", 0,
                    searchSnippets("mem", mem, q, TRUE), searchSnippets("db", db, q, TRUE))
    \/ now < EquivMaxTime /\ Tick

SpecEquiv == InitEquiv /\ [][NextEquiv]_vars

\* C7: every call made on both storages returns in DatabaseStorage what it
\* returns in MemStorage: the same value, or the same list in the same order
\* with the same counters.
C7_SameResults == resp.ret \/ resp.route = ""

\* ------------------------------------------------- requests that interleave
\* Node runs one handler until its next await; the handlers of two requests
\* interleave at the awaits.  `inflight` holds the handlers that have started
\* and not answered yet, each with its position and its local variables.
Slots == {"r1", "r2"}
\* in the register race each browser has one request in flight
ClientOf == [slot \in Slots |-> IF slot = "r1" THEN "c1" ELSE "c2"]

\* the slot of a browser that has one request in flight at a time
SlotOf(c) == CHOOSE slot \in Slots : ClientOf[slot] = c

\* POST /api/snippets/:id/like on DatabaseStorage, up to the SELECT of
\* likeSnippet; requireAuth has let the request through
LikeSelect(slot, c, id) ==
    /\ storage = "db"
    /\ slot \notin DOMAIN inflight
    /\ session[c] # Null
    /\ inflight' = Put(inflight, slot,
                       [ client |-> c, snippetId |-> id, userId |-> session[c],
                         existingLike |-> Db_isSnippetLiked(db, id, session[c]),
                         pc |-> "selected" ])
    /\ UNCHANGED <<mem, db, storage, session, now, resp>>

\* if (existingLike) return false; else the INSERT INTO snippet_likes
LikeInsert(slot) ==
    /\ storage = "db"
    /\ slot \in DOMAIN inflight
    /\ inflight[slot].pc = "selected"
    /\ LET r == inflight[slot]
       IN  IF r.existingLike
           THEN /\ Reply("POST /api/snippets/:id/like", r.client, r.snippetId, "", 400, <<>>, {})
                /\ inflight' = Drop(inflight, {slot})
                /\ UNCHANGED <<mem, db>>
           ELSE /\ db' = Db_insertLike(db, r.snippetId, r.userId)
                /\ inflight' = [inflight EXCEPT ![slot].pc = "inserted"]
                /\ UNCHANGED <<mem, resp>>
    /\ UNCHANGED <<storage, session, now>>

\* UPDATE snippets SET likes = likes + 1; return true; the route answers 200
LikeUpdate(slot) ==
    /\ storage = "db"
    /\ slot \in DOMAIN inflight
    /\ inflight[slot].pc = "inserted"
    /\ LET r == inflight[slot]
       IN  /\ db' = Db_addLikes(db, r.snippetId, 1)
           /\ Reply("POST /api/snippets/:id/like", r.client, r.snippetId, "", 200, <<>>, {})
    /\ inflight' = Drop(inflight, {slot})
    /\ UNCHANGED <<mem, storage, session, now>>

\* MemStorage.likeSnippet has no await: on it the request is PostLike
NextLikeRace ==
    \/ \E c \in Clients : Register(c, NameOf[c], MailOf[c], Password)
    \/ \E c \in Clients : Cur.snippetSeq < RaceMaxSnippets /\ PostSnippet(c, TitleA, TRUE)
    \/ \E c \in Clients, id \in SnippetIds : storage = "mem" /\ PostLike(c, id)
    \/ \E slot \in Slots, c \in Clients, id \in SnippetIds : LikeSelect(slot, c, id)
    \/ \E slot \in Slots : LikeInsert(slot)
    \/ \E slot \in Slots : LikeUpdate(slot)

SpecLikeRace == Init /\ [][NextLikeRace]_vars

\* C8: there is at most one like record per (snippetId, userId) pair, in
\* either storage, also while like requests interleave.
C8_OneLikePerPair ==
    /\ \A l \in Rows(mem.snippetLikes) : CopiesIn(l, mem.snippetLikes) = 1
    /\ \A l \in Rows(db.snippetLikes) : CopiesIn(l, db.snippetLikes) = 1

\* POST /api/auth/register up to the answer of getUserByUsername
RegisterBegin(slot, c, username, email) ==
    /\ storage \in Impls
    /\ slot \notin DOMAIN inflight
    /\ inflight' = Put(inflight, slot,
                       [ client |-> c, username |-> username, email |-> email,
                         existing |-> getUserByUsername(storage, Cur, username) # Null,
                         pc |-> "username" ])
    /\ UNCHANGED <<mem, db, storage, session, now, resp>>

\* if (existingUsername) 400; else getUserByEmail
RegisterEmail(slot) ==
    /\ storage \in Impls
    /\ slot \in DOMAIN inflight
    /\ inflight[slot].pc = "username"
    /\ LET r == inflight[slot]
       IN  IF r.existing
           THEN /\ Reply("POST /api/auth/register", r.client, 0, r.username, 400, <<>>, {})
                /\ inflight' = Drop(inflight, {slot})
           ELSE /\ inflight' = [inflight EXCEPT
                                  ![slot].existing = getUserByEmail(storage, Cur, r.email) # Null,
                                  ![slot].pc = "email"]
                /\ UNCHANGED resp
    /\ UNCHANGED <<mem, db, storage, session, now>>

\* if (existingEmail) 400; else createUser as far as await bcrypt.hash
RegisterHash(slot) ==
    /\ storage \in Impls
    /\ slot \in DOMAIN inflight
    /\ inflight[slot].pc = "email"
    /\ LET r == inflight[slot]
       IN  IF r.existing
           THEN /\ Reply("POST /api/auth/register", r.client, 0, r.username, 400, <<>>, {})
                /\ inflight' = Drop(inflight, {slot})
           ELSE /\ inflight' = [inflight EXCEPT ![slot].pc = "hash"]
                /\ UNCHANGED resp
    /\ UNCHANGED <<mem, db, storage, session, now>>

\* the rest of createUser (users.set, or the INSERT that the unique indexes
\* may reject), then req.session.userId = user.id and the answer
RegisterInsert(slot) ==
    /\ storage \in Impls
    /\ slot \in DOMAIN inflight
    /\ inflight[slot].pc = "hash"
    /\ LET r == inflight[slot]
           u == createUser(storage, Cur, r.username, r.email, Password)
       IN  IF u.threw
           THEN /\ Reply("POST /api/auth/register", r.client, 0, r.username, 400, <<>>, {})
                /\ UNCHANGED <<mem, db, session>>
           ELSE /\ Commit(u.st)
                /\ session' = [session EXCEPT ![r.client] = u.ret]
                /\ Reply("POST /api/auth/register", r.client, u.ret, r.username, 200, <<>>, {})
    /\ inflight' = Drop(inflight, {slot})
    /\ UNCHANGED <<storage, now>>

NextRegisterRace ==
    \/ \E slot \in Slots, n \in {"alice", "bob"}, e \in {"alice@x", "bob@x"} :
          RegisterBegin(slot, ClientOf[slot], n, e)
    \/ \E slot \in Slots : RegisterEmail(slot)
    \/ \E slot \in Slots : RegisterHash(slot)
    \/ \E slot \in Slots : RegisterInsert(slot)

SpecRegisterRace == Init /\ [][NextRegisterRace]_vars

\* C9: no two users have the same username and no two users have the same
\* email, in either storage, also while register requests interleave.
UniqueUsers(st) ==
    \A u, v \in DOMAIN st.users :
        u # v => /\ st.users[u].username # st.users[v].username
                 /\ st.users[u].email # st.users[v].email

C9_UniqueUsernameAndEmail == UniqueUsers(mem) /\ UniqueUsers(db)

\* ------------------------------------------------------------------ follows
NextFollow ==
    \/ \E c \in Clients : Register(c, NameOf[c], MailOf[c], Password)
    \/ \E c \in Clients : Logout(c)
    \/ \E c, d \in Clients : Login(c, NameOf[d], Password)
    \/ \E c, d \in Clients : PostFollow(c, NameOf[d])
    \/ \E c, d \in Clients : DeleteFollow(c, NameOf[d])
    \/ \E u, v \in UserIds : CallFollowUser(u, v)

SpecFollow == Init /\ [][NextFollow]_vars

NoSelfFollow(st) == \A f \in Rows(st.follows) : f.followerId # f.followingId

\* C10: no follow row has followerId = followingId; followUser(u, u) returns
\* false and inserts nothing; POST /api/users/:username/follow sent by the
\* user of that name is answered 400.
C10_NoSelfFollow ==
    /\ [](NoSelfFollow(mem) /\ NoSelfFollow(db))
    /\ [][\A u \in UserIds :
            CallFollowUser(u, u) => (~resp'.ret /\ mem' = mem /\ db' = db)]_vars
    /\ [][\A c, d \in Clients :
            (/\ PostFollow(c, NameOf[d])
             /\ Has(Cur.users, session[c])
             /\ Cur.users[session[c]].username = NameOf[d])
            => (resp'.status = 400 /\ mem' = mem /\ db' = db)]_vars

\* followUser(u, u) has just returned false for an existing user, in a store
\* that holds a follow row
C10_Witness ==
    /\ resp.route = "followUser"
    /\ resp.body[1] = resp.body[2]
    /\ ~resp.ret
    /\ Has(Cur.users, resp.body[1])
    /\ Cur.follows # EmptyBag

\* ------------------------------------------- requireAuth and requireAdmin
AdminPassword == "1234567890"

\* the routes registered with requireAuth
AuthRoutes ==
    { "POST /api/snippets", "PATCH /api/snippets/:id", "DELETE /api/snippets/:id",
      "POST /api/snippets/:id/like", "DELETE /api/snippets/:id/like",
      "GET /api/my-snippets", "POST /api/users/:username/follow",
      "DELETE /api/users/:username/follow", "GET /api/following", "GET /api/followers",
      "GET /api/notifications", "PUT /api/notifications/:id/read",
      "PUT /api/notifications/read-all", "GET /api/notifications/unread-count",
      "PUT /api/profile/picture" }

\* the routes registered with requireAdmin
AdminRoutes ==
    { "GET /api/admin/users", "GET /api/admin/snippets", "DELETE /api/admin/snippets/:id",
      "DELETE /api/admin/users/:id", "PATCH /api/admin/users/:id/rank",
      "GET /api/admin/stats" }

\* c1 is the administrator's browser and c2 a member's: c2 signs up, c1
\* signs in as the administrator; each of them is at times signed out
Member == "c2"
Signed(c) == session[c] = Null \/ c = Member

NextGuards ==
    \/ Cur.userSeq = 0 /\ SetupAdmin("c1")
    \/ Cur.userSeq = 1 /\ Register(Member, NameOf[Member], MailOf[Member], Password)
    \/ Login("c1", AdminUsername, AdminPassword)
    \/ \E c \in Clients : Logout(c)
    \/ \E c \in Clients :
        Signed(c) /\ Cur.snippetSeq < GuardsMaxSnippets /\ PostSnippet(c, TitleA, TRUE)
    \/ \E c \in Clients, id \in SnippetIds : Signed(c) /\ PatchSnippet(c, id, TitleA, FALSE)
    \/ \E c \in Clients, id \in SnippetIds : Signed(c) /\ DeleteSnippet(c, id)
    \/ \E c \in Clients, id \in SnippetIds : Signed(c) /\ PostLike(c, id)
    \/ \E c \in Clients, id \in SnippetIds : Signed(c) /\ DeleteLike(c, id)
    \/ \E c \in Clients : GetMySnippets(c)
    \/ \E c \in Clients : PostFollow(c, NameOf[Member])
    \/ \E c \in Clients : DeleteFollow(c, NameOf[Member])
    \/ \E c \in Clients : GetFollowing(c)
    \/ \E c \in Clients : GetFollowers(c)
    \/ \E c \in Clients : GetNotifications(c)
    \/ \E c \in Clients, id \in 1..Cur.notificationSeq : PutNotificationRead(c, id)
    \/ \E c \in Clients : PutNotificationsReadAll(c)
    \/ \E c \in Clients : GetUnreadCount(c)
    \/ \E c \in Clients : Signed(c) /\ PutProfilePicture(c, "png")
    \/ \E c \in Clients : AdminGetUsers(c, 50, 0)
    \/ \E c \in Clients : AdminGetSnippets(c, 50, 0)
    \/ \E c \in Clients, id \in SnippetIds : AdminDeleteSnippet(c, id)
    \/ \E c \in Clients, id \in UserIds : AdminDeleteUser(c, id)
    \/ \E c \in Clients, id \in UserIds, rank \in {"admin", "default"} :
        AdminPatchRank(c, id, rank)
    \/ \E c \in Clients : AdminStats(c)

SpecGuards == Init /\ [][NextGuards]_vars

\* the session user of the request just answered is no administrator
NotAdmin(st, userId) == ~Has(st.users, userId) \/ st.users[userId].rank # "admin"

\* C11: a request to a requireAuth route from a session without userId is
\* answered 401; a request to an /api/admin/* route is answered 401 without a
\* session userId and 403 when the session's user does not exist or has a
\* rank other than admin; in each of these cases the store is left as it was.
C11_GuardsReject ==
    [][LET r == resp'
       IN  r.route \in AuthRoutes \cup AdminRoutes =>
             /\ session[r.client] = Null =>
                    (r.status = 401 /\ mem' = mem /\ db' = db)
             /\ (/\ r.route \in AdminRoutes
                 /\ session[r.client] # Null
                 /\ NotAdmin(Cur, session[r.client])) =>
                    (r.status = 403 /\ mem' = mem /\ db' = db)]_vars

\* an admin route has answered 403 to a session whose user was deleted, in a
\* store that holds a snippet and another administrator
C11_Witness ==
    /\ resp.route \in AdminRoutes
    /\ resp.status = 403
    /\ session[resp.client] # Null
    /\ ~Has(Cur.users, session[resp.client])
    /\ Cur.snippets # <<>>

\* ------------------------------------------------- who may change a snippet
\* the store after the step
CurNext == IF storage = "mem" THEN mem' ELSE db'

NextOwner ==
    \/ Cur.userSeq = 0 /\ SetupAdmin("c1")
    \/ Cur.userSeq = 1 /\ Register(Member, NameOf[Member], MailOf[Member], Password)
    \/ Login("c1", AdminUsername, AdminPassword)
    \/ \E c \in Clients : Logout(c)
    \/ \E c \in Clients :
        Cur.snippetSeq < OwnerMaxSnippets /\ PostSnippet(c, TitleA, TRUE)
    \/ \E c \in Clients, id \in SnippetIds : PatchSnippet(c, id, TitleB, FALSE)
    \/ \E c \in Clients, id \in SnippetIds : DeleteSnippet(c, id)
    \/ \E c \in Clients, id \in SnippetIds : PostLike(c, id)
    \/ \E c \in Clients, id \in SnippetIds : AdminDeleteSnippet(c, id)
    \/ \E c \in Clients, id \in UserIds : AdminDeleteUser(c, id)

SpecOwner == Init /\ [][NextOwner]_vars

OwnerRoutes == {"PATCH /api/snippets/:id", "DELETE /api/snippets/:id"}

\* a PATCH or DELETE of a signed-in user who is not the author is answered 403
\* and the snippet stays as it is; for an id without snippet the answer is 404
NonAuthorRejected ==
    LET r == resp'
    IN  (r.route \in OwnerRoutes /\ session[r.client] # Null) =>
            IF ~Has(Cur.snippets, r.id)
            THEN r.status = 404 /\ CurNext = Cur
            ELSE Cur.snippets[r.id].authorId # session[r.client] =>
                    /\ r.status = 403
                    /\ Has(CurNext.snippets, r.id)
                    /\ CurNext.snippets[r.id] = Cur.snippets[r.id]

\* the snippet id goes in this step through the author's DELETE /api/snippets/:id
RemovedByAuthor(id) ==
    /\ resp'.route = "DELETE /api/snippets/:id"
    /\ resp'.id = id
    /\ session[resp'.client] = Cur.snippets[id].authorId

\* ... through an administrator's DELETE /api/admin/snippets/:id
RemovedByAdmin(id) ==
    /\ resp'.route = "DELETE /api/admin/snippets/:id"
    /\ resp'.id = id
    /\ ~NotAdmin(Cur, session[resp'.client])

\* ... through an administrator's DELETE /api/admin/users/:id of its author
RemovedWithAuthor(id) ==
    /\ resp'.route = "DELETE /api/admin/users/:id"
    /\ resp'.id = Cur.snippets[id].authorId
    /\ ~NotAdmin(Cur, session[resp'.client])

NextPayload ==
    \/ Cur.userSeq = 0 /\ SetupAdmin("c1")
    \/ Cur.userSeq = 1 /\ Register(Member, NameOf[Member], MailOf[Member], Password)
    \/ Login("c1", AdminUsername, AdminPassword)
    \/ Login(Member, NameOf[Member], Password)
    \/ \E c \in Clients : Logout(c)
    \/ \E c \in Clients : GetMe(c)
    \/ \E c \in Clients, name \in {NameOf[Member], AdminUsername} : GetUser(c, name)
    \/ \E c \in Clients, name \in {NameOf[Member], AdminUsername} : PostFollow(c, name)
    \/ \E c \in Clients : GetFollowing(c)
    \/ \E c \in Clients : GetFollowers(c)
    \/ PutProfilePicture(Member, "png")
    \/ Cur.snippetSeq < PayloadMaxSnippets /\ PostSnippet(Member, TitleA, TRUE)
    \/ \E c \in Clients : GetSnippets(c, 20, 0)
    \/ \E c \in Clients : GetNotifications(c)
    \/ \E c \in Clients : AdminGetUsers(c, 50, 0)
    \/ \E c \in Clients : AdminGetSnippets(c, 50, 0)
    \/ \E id \in UserIds, rank \in {"admin", "default"} : AdminPatchRank("c1", id, rank)

SpecPayload == Init /\ [][NextPayload]_vars

\* C13: no response that carries user data (register, login, me,
\* users/:username, following, followers, profile/picture, admin/users, the
\* rank change, setup/admin, the author of a snippet and the fromUser of a
\* notification) has a password field in any of its user objects.
C13_NoPasswordInResponse ==
    \A i \in DOMAIN resp.users : "password" \notin DOMAIN resp.users[i]

\* GET /api/admin/users has answered with two users, one of them with a
\* profile picture
C13_Witness ==
    /\ resp.route = "GET /api/admin/users"
    /\ resp.status = 200
    /\ Len(resp.users) = 2
    /\ \E i \in DOMAIN resp.users : resp.users[i].profilePicture # ""

\* ------------------------------------------- notifying the followers
\* POST /api/users/:username/follow on DatabaseStorage, up to the SELECT of
\* followUser; requireAuth and the two checks of the route have let it through
FollowSelect(slot, c, username) ==
    /\ storage = "db"
    /\ slot \notin DOMAIN inflight
    /\ session[c] # Null
    /\ LET id == Db_getUserByUsername(db, username)
       IN  /\ id # Null
           /\ id # session[c]
           /\ inflight' = Put(inflight, slot,
                              [ client |-> c, username |-> username,
                                followerId |-> session[c], followingId |-> id,
                                existingFollow |-> Db_isFollowing(db, session[c], id),
                                pc |-> "selected" ])
    /\ UNCHANGED <<mem, db, storage, session, now, resp>>

\* if (existingFollow) return false; else the INSERT INTO follows, return true
FollowInsert(slot) ==
    /\ storage = "db"
    /\ slot \in DOMAIN inflight
    /\ inflight[slot].pc = "selected"
    /\ LET r == inflight[slot]
       IN  IF r.existingFollow
           THEN /\ Reply("POST /api/users/:username/follow", r.client, r.followingId,
                         r.username, 400, <<>>, {})
                /\ UNCHANGED <<mem, db>>
           ELSE /\ db' = [db EXCEPT !.follows = AddRow(@, Follow(r.followerId, r.followingId))]
                /\ Reply("POST /api/users/:username/follow", r.client, r.followingId,
                         r.username, 200, <<>>, {})
                /\ UNCHANGED mem
    /\ inflight' = Drop(inflight, {slot})
    /\ UNCHANGED <<storage, session, now>>

\* MemStorage.followUser has no await: on it the request is PostFollow
NextFanout ==
    \/ \E c \in Clients : Register(c, NameOf[c], MailOf[c], Password)
    \/ \E c \in Clients, isPublic \in BOOLEAN :
        Cur.snippetSeq < FanoutMaxSnippets /\ PostSnippet(c, TitleA, isPublic)
    \/ \E c, d \in Clients : storage = "mem" /\ PostFollow(c, NameOf[d])
    \/ \E slot \in Slots, c, d \in Clients : FollowSelect(slot, c, NameOf[d])
    \/ \E slot \in Slots : FollowInsert(slot)
    \/ \E c, d \in Clients : DeleteFollow(c, NameOf[d])

SpecFanout == Init /\ [][NextFanout]_vars

\* the users who follow userId
FollowersOf(st, userId) ==
    {u \in DOMAIN st.users : Follow(u, userId) \in Rows(st.follows)}

\* the notifications written by the step
NewNotifications == DOMAIN CurNext.notifications \ DOMAIN Cur.notifications

\* C14: when A creates a public snippet through POST /api/snippets, every
\* user who follows A receives exactly one new unread notification of type
\* new_snippet with the new snippet's id and fromUserId A, and nobody else
\* receives one; a snippet created with isPublic = false creates none.
C14_OneNotificationPerFollower ==
    [][LET r == resp'
           author == session[r.client]
       IN  (r.route = "POST /api/snippets" /\ r.status = 201 /\ r.id > Cur.snippetSeq) =>
             IF CurNext.snippets[r.id].isPublic
             THEN /\ \A u \in FollowersOf(Cur, author) :
                        Cardinality({n \in NewNotifications :
                                        CurNext.notifications[n].userId = u}) = 1
                  /\ \A n \in NewNotifications :
                        /\ CurNext.notifications[n].userId \in FollowersOf(Cur, author)
                        /\ CurNext.notifications[n] =
                             Notification(CurNext.notifications[n].userId, r.id, author)
             ELSE NewNotifications = {}]_vars

\* ------------------------------------------- failures while notifying
\* c1 signs up and later signs in as the administrator; c2 signs up
NextFault ==
    \/ \E c \in Clients :
        Cur.userSeq < MaxUsers /\ Register(c, NameOf[c], MailOf[c], Password)
    \/ Cur.userSeq = MaxUsers /\ SetupAdmin("c1")
    \/ Login("c1", AdminUsername, AdminPassword)
    \/ \E c \in Clients : PostFollow(c, NameOf[Member])
    \/ \E c \in Clients, isPublic \in BOOLEAN, fault \in Faults :
        Cur.snippetSeq < FaultMaxSnippets /\ PostSnippetWith(c, TitleA, isPublic, fault)
    \/ \E c \in Clients : GetNotifications(c)

SpecFault == Init /\ [][NextFault]_vars

\* C15: a getFollowers, getUser or createNotification call that fails during
\* the fan-out of POST /api/snippets is swallowed: the snippet is stored, the
\* answer is 201 with the snippet, and the notifications written before the
\* failure stay.
C15_FanoutFailureSwallowed ==
    [][LET r == resp'
           followers == ToList(getFollowers(storage, Cur, session[r.client]))
       IN  (r.route = "POST /api/snippets" /\ r.id > Cur.snippetSeq /\ r.name # "") =>
             /\ r.status = 201
             /\ r.shown = {r.id}
             /\ Has(CurNext.snippets, r.id)
             /\ DOMAIN Cur.notifications \subseteq DOMAIN CurNext.notifications
             /\ Cardinality(NewNotifications) =
                    IF CurNext.snippets[r.id].isPublic
                    THEN Written(r.name, followers) ELSE 0
             /\ \A n \in NewNotifications :
                    CurNext.notifications[n] =
                        Notification(CurNext.notifications[n].userId, r.id, session[r.client])]_vars

\* the second createNotification of a fan-out to two followers has failed:
\* one notification is stored and the answer was 201
C15_Witness ==
    /\ resp.route = "POST /api/snippets"
    /\ resp.name = "createNotification2"
    /\ resp.status = 201
    /\ BagCardinality(getFollowers(storage, Cur, session[resp.client])) = 2
    /\ Cardinality(DOMAIN Cur.notifications) = 1

\* ------------------------------------------- what a request in between sees
\* DatabaseStorage.likeSnippet runs as LikeSelect, LikeInsert, LikeUpdate;
\* GET /api/users/:username/liked of another request runs in between
NextAtomic ==
    \/ \E c \in Clients : Register(c, NameOf[c], MailOf[c], Password)
    \/ \E c \in Clients : Cur.snippetSeq < AtomicMaxSnippets /\ PostSnippet(c, TitleA, TRUE)
    \/ \E c \in Clients, id \in SnippetIds : storage = "mem" /\ PostLike(c, id)
    \/ \E c \in Clients, id \in SnippetIds : LikeSelect(SlotOf(c), c, id)
    \/ \E slot \in Slots : LikeInsert(slot)
    \/ \E slot \in Slots : LikeUpdate(slot)
    \/ \E c, d \in Clients : GetLiked(c, NameOf[d])

SpecAtomic == Init /\ [][NextAtomic]_vars

\* C16: no request observes a like record whose snippet counter has not been
\* updated yet: every snippet that GET /api/users/:username/liked lists
\* for a user, because the user's like record exists, is sent with a likes
\* counter that counts that like.
C16_NoHalfDoneLike ==
    (resp.route = "GET /api/users/:username/liked" /\ resp.status = 200) =>
        \A i \in DOMAIN resp.body : resp.body[i] >= 1

\* ------------------------------------------- likes of a snippet that is gone
LikeRoutes == {"POST /api/snippets/:id/like", "DELETE /api/snippets/:id/like"}

\* C17: POST /api/snippets/:id/like for a snippet id that does not exist
\* answers 400 and creates no like record; DELETE /api/snippets/:id/like for
\* a snippet that does not exist answers 400 and changes nothing.
C17_LikeOfMissingSnippetRejected ==
    [][LET r == resp'
       IN  (/\ r.route \in LikeRoutes
            /\ session[r.client] # Null
            /\ ~Has(Cur.snippets, r.id)) =>
                /\ r.status = 400
                /\ CurNext.snippetLikes = Cur.snippetLikes
                /\ r.route = "DELETE /api/snippets/:id/like" => CurNext = Cur]_vars

\* ------------------------------------------- what an administrator may not do
NextAdmin ==
    \/ Cur.userSeq = 0 /\ SetupAdmin("c1")
    \/ Cur.userSeq \in 1..MaxUsers /\ Register(Member, NameOf[Member], MailOf[Member], Password)
    \/ Login("c1", AdminUsername, AdminPassword)
    \/ \E c \in Clients : Logout(c)
    \/ \E c \in Clients : Cur.snippetSeq < AdminMaxSnippets /\ PostSnippet(c, TitleA, TRUE)
    \/ \E c \in Clients, id \in UserIds : AdminDeleteUser(c, id)
    \/ \E c \in Clients, id \in UserIds, rank \in Ranks : AdminPatchRank(c, id, rank)
    \/ \E c \in Clients : AdminGetUsers(c, 50, 0)

SpecAdmin == Init /\ [][NextAdmin]_vars

\* C18: an administrator's DELETE /api/admin/users/:id with the own id is
\* answered 400 and deletes nothing; PATCH /api/admin/users/:id/rank with the
\* own id and rank default is answered 400 and changes nothing; so is a rank
\* other than admin and default.
C18_AdminSelfProtection ==
    [][LET r == resp'
           isAdmin == session[r.client] # Null /\ ~NotAdmin(Cur, session[r.client])
       IN  /\ (/\ r.route = "DELETE /api/admin/users/:id"
               /\ isAdmin
               /\ r.id = session[r.client]) => (r.status = 400 /\ CurNext = Cur)
           /\ (/\ r.route = "PATCH /api/admin/users/:id/rank"
               /\ isAdmin
               /\ r.id = session[r.client]
               /\ r.name = "default") => (r.status = 400 /\ CurNext = Cur)
           /\ (/\ r.route = "PATCH /api/admin/users/:id/rank"
               /\ isAdmin
               /\ r.name \notin {"admin", "default"}) => (r.status = 400 /\ CurNext = Cur)]_vars

\* an administrator has asked to delete the own account, was answered 400 and
\* is still there, beside another user and a snippet
C18_Witness ==
    /\ resp.route = "DELETE /api/admin/users/:id"
    /\ resp.status = 400
    /\ resp.id = session[resp.client]
    /\ Has(Cur.users, resp.id)
    /\ Cardinality(DOMAIN Cur.users) = 2
    /\ Cur.snippets # <<>>

\* ------------------------------------------------------- reading the inbox
NotificationIds == 1..Cur.notificationSeq

NextInbox ==
    \/ \E c \in Clients : Register(c, NameOf[c], MailOf[c], Password)
    \/ \E c, d \in Clients : PostFollow(c, NameOf[d])
    \/ \E c \in Clients : Cur.snippetSeq < InboxMaxSnippets /\ PostSnippet(c, TitleA, TRUE)
    \/ \E c \in Clients, id \in NotificationIds \cup {Cur.notificationSeq + 1} :
        PutNotificationRead(c, id)
    \/ \E c \in Clients : PutNotificationsReadAll(c)
    \/ \E c \in Clients : GetUnreadCount(c)
    \/ \E id \in NotificationIds \cup {Cur.notificationSeq + 1}, u \in UserIds :
        CallMarkNotificationRead(id, u)
    \/ \E u \in UserIds : CallMarkAllNotificationsRead(u)
    \/ \E u \in UserIds : CallGetUnreadNotificationCount(u)

SpecInbox == Init /\ [][NextInbox]_vars

\* the notifications of st other than id are those of the store before
SameBut(before, after, ids) ==
    /\ DOMAIN after.notifications = DOMAIN before.notifications
    /\ \A n \in DOMAIN before.notifications \ ids :
            after.notifications[n] = before.notifications[n]
    /\ [after EXCEPT !.notifications = before.notifications] = before

\* markNotificationRead(id, userId) of this step did what the claim says
MarkedOrRefused(id, userId, ret) ==
    IF Has(Cur.notifications, id) /\ Cur.notifications[id].userId = userId
    THEN /\ ret
         /\ CurNext.notifications[id] = [Cur.notifications[id] EXCEPT !.isRead = TRUE]
         /\ SameBut(Cur, CurNext, {id})
    ELSE ~ret /\ CurNext = Cur

\* C19: markNotificationRead(id, u) sets isRead only when the notification
\* exists and its recipient is u; otherwise it returns false, PUT
\* /api/notifications/:id/read answers 404 and no notification changes; and a
\* notification that is read is never unread again.
C19_MarkReadOnlyOwn ==
    /\ [][resp'.route = "markNotificationRead" =>
            MarkedOrRefused(resp'.body[1], resp'.body[2], resp'.ret)]_vars
    /\ [][(resp'.route = "PUT /api/notifications/:id/read" /\ session[resp'.client] # Null) =>
            /\ MarkedOrRefused(resp'.id, session[resp'.client], resp'.status = 200)
            /\ resp'.status \in {200, 404}]_vars
    /\ [][\A n \in DOMAIN Cur.notifications :
            (Cur.notifications[n].isRead /\ Has(CurNext.notifications, n))
                => CurNext.notifications[n].isRead]_vars

\* PUT /api/notifications/:id/read for another user's unread notification has
\* been answered 404, and that notification is still unread
C19_Witness ==
    /\ resp.route = "PUT /api/notifications/:id/read"
    /\ resp.status = 404
    /\ Has(Cur.notifications, resp.id)
    /\ Cur.notifications[resp.id].userId # session[resp.client]
    /\ ~Cur.notifications[resp.id].isRead
    /\ \E n \in DOMAIN Cur.notifications : Cur.notifications[n].isRead

\* the unread notifications of a user
Unread(st, userId) ==
    {n \in DOMAIN st.notifications :
        st.notifications[n].userId = userId /\ st.notifications[n].isRead = FALSE}

\* markAllNotificationsRead(userId) of this step left userId nothing unread
\* and the other users' notifications as they were
AllReadFor(userId) ==
    /\ getUnreadNotificationCount(storage, CurNext, userId) = 0
    /\ SameBut(Cur, CurNext, Unread(Cur, userId))
    /\ \A v \in DOMAIN Cur.users \ {userId} :
            getUnreadNotificationCount(storage, CurNext, v)
                = getUnreadNotificationCount(storage, Cur, v)

\* C20: getUnreadNotificationCount(u) is the number of stored notifications
\* with recipient u and isRead = false; right after markAllNotificationsRead(u)
\* it is 0 and the flags and counts of the other users are as before.
C20_UnreadCount ==
    /\ [][resp'.route = "getUnreadNotificationCount" =>
            resp'.body[2] = Cardinality(Unread(Cur, resp'.body[1]))]_vars
    /\ [][(resp'.route = "GET /api/notifications/unread-count" /\ resp'.status = 200) =>
            resp'.body = <<Cardinality(Unread(Cur, session[resp'.client]))>>]_vars
    /\ [][resp'.route = "markAllNotificationsRead" => AllReadFor(resp'.body[1])]_vars
    /\ [][(resp'.route = "PUT /api/notifications/read-all" /\ resp'.status = 200) =>
            AllReadFor(session[resp'.client])]_vars

\* getUnreadNotificationCount has returned 1 for a user who has a read and an
\* unread notification
C20_Witness ==
    /\ resp.route = "getUnreadNotificationCount"
    /\ resp.body[2] = 1
    /\ \E n \in DOMAIN Cur.notifications :
            Cur.notifications[n].userId = resp.body[1] /\ Cur.notifications[n].isRead

\* ------------------------------------------------------- like, then unlike
NextInverse ==
    \/ \E c \in Clients : Register(c, NameOf[c], MailOf[c], Password)
    \/ \E c \in Clients : Cur.snippetSeq < InverseMaxSnippets /\ PostSnippet(c, TitleA, TRUE)
    \/ \E c \in Clients, id \in SnippetIds : PostLike(c, id)
    \/ \E c \in Clients, id \in SnippetIds : DeleteLike(c, id)
    \/ \E id \in SnippetIds, u \in UserIds : CallLikeThenUnlike(id, u)

SpecInverse == Init /\ [][NextInverse]_vars

\* C21: for an existing snippet s that u has not liked, likeSnippet(s, u)
\* followed by unlikeSnippet(s, u) both return true and leave s.likes and
\* isSnippetLiked(s, u) as they were before the pair; unlikeSnippet(s, u)
\* when u has no like on s returns false, DELETE /api/snippets/:id/like
\* answers 400, and s.likes is unchanged.
C21_LikeUnlikeInverse ==
    /\ [][LET r == resp'
          IN  (/\ r.route = "likeSnippet, unlikeSnippet"
               /\ Has(Cur.snippets, r.body[1])
               /\ ~isSnippetLiked(storage, Cur, r.body[1], r.body[2])) =>
                    /\ r.ret
                    /\ CurNext.snippets[r.body[1]].likes = Cur.snippets[r.body[1]].likes
                    /\ ~isSnippetLiked(storage, CurNext, r.body[1], r.body[2])]_vars
    /\ [][LET r == resp'
          IN  (/\ r.route = "DELETE /api/snippets/:id/like"
               /\ session[r.client] # Null
               /\ Has(Cur.snippets, r.id)
               /\ ~isSnippetLiked(storage, Cur, r.id, session[r.client])) =>
                    /\ r.status = 400
                    /\ CurNext.snippets[r.id].likes = Cur.snippets[r.id].likes]_vars

\* the pair has returned true twice on a snippet that another user likes
C21_Witness ==
    /\ resp.route = "likeSnippet, unlikeSnippet"
    /\ resp.ret
    /\ Has(Cur.snippets, resp.body[1])
    /\ Cur.snippets[resp.body[1]].likes = 1
    /\ ~isSnippetLiked(storage, Cur, resp.body[1], resp.body[2])

\* ------------------------------------------------------ one row per follow
\* C22: in every reachable state there is at most one follow row per
\* (followerId, followingId) pair, in whichever storage is in use, also
\* while follow requests interleave.
C22_OneFollowRowPerPair ==
    \A f \in Rows(Cur.follows) : CopiesIn(f, Cur.follows) = 1

\* ------------------------------------------------------- signing in and out
Passwords == {Password, "other"}

NextSession ==
    \/ \E c \in Clients, p \in Passwords : Register(c, NameOf[c], MailOf[c], p)
    \/ \E c \in Clients, n \in {"alice", "bob", "carol"}, p \in Passwords : Login(c, n, p)
    \/ \E c \in Clients : Logout(c)
    \/ \E c \in Clients : GetMe(c)
    \/ \E c \in Clients :
        Cur.snippetSeq < SessionMaxSnippets /\ PostSnippet(c, TitleA, TRUE)
    \/ \E c \in Clients : GetMySnippets(c)
    \/ \E c \in Clients : GetNotifications(c)
    \/ \E c \in Clients : GetUnreadCount(c)
    \/ \E c \in Clients : PutProfilePicture(c, "png")

SpecSession == Init /\ [][NextSession]_vars

\* the request just answered was a login with the password of the named user
CorrectPair(r, password) ==
    \E u \in DOMAIN Cur.users :
        /\ u = r.id
        /\ Cur.users[u].username = r.name
        /\ Cur.users[u].password = Hash(password)

\* a session takes a userId only in a register answered 200, and it is then
\* the id of the user created
SessionByRegister(c) ==
    /\ resp'.route = "POST /api/auth/register"
    /\ resp'.client = c
    /\ resp'.status = 200
    /\ session'[c] = resp'.id
    /\ ~Has(Cur.users, resp'.id)
    /\ Has(CurNext.users, resp'.id)
    /\ CurNext.users[resp'.id].username = resp'.name

\* ... or in a login answered 200, and it is then the id of the user with
\* that username, whose password was given
SessionByLogin(c) ==
    /\ resp'.route = "POST /api/auth/login"
    /\ resp'.client = c
    /\ resp'.status = 200
    /\ session'[c] = resp'.id
    /\ \E p \in Passwords : Login(c, resp'.name, p) /\ CorrectPair(resp', p)

\* no stored user has this username with this password
WrongPair(username, password) ==
    \A u \in DOMAIN Cur.users :
        Cur.users[u].username # username \/ Cur.users[u].password # Hash(password)

\* a login with an unknown username or a wrong password is answered 401 and
\* leaves the session as it was
LoginRefused ==
    \A c \in Clients, n \in {"alice", "bob", "carol"}, p \in Passwords :
        (Login(c, n, p) /\ WrongPair(n, p)) =>
            /\ resp'.route = "POST /api/auth/login"
            /\ resp'.status = 401
            /\ session' = session

\* logout empties the session, and a session that holds no userId is
\* answered 401 by GET /api/auth/me and by the requireAuth routes
SignedOut ==
    LET r == resp'
    IN  /\ r.route = "POST /api/auth/logout" => session'[r.client] = Null
        /\ (/\ r.route \in AuthRoutes \cup {"GET /api/auth/me"}
            /\ session[r.client] = Null) => r.status = 401

LikeRecords(st, snippetId) ==
    BagCardinality([l \in {x \in Rows(st.snippetLikes) : x.snippetId = snippetId}
                        |-> st.snippetLikes[l]])

\* C24: in every reachable state each stored snippet's likes counter equals
\* the number of like records with that snippetId, also after
\* deleteUserAndSnippets has removed the like records of a deleted user from
\* the snippets of other authors.
C24_LikesCounterMatchesRecords ==
    \A s \in DOMAIN Cur.snippets : Cur.snippets[s].likes = LikeRecords(Cur, s)

\* ------------------------------------------------ unlikes that interleave
\* DELETE /api/snippets/:id/like on DatabaseStorage, up to the SELECT of
\* unlikeSnippet; requireAuth has let the request through
UnlikeSelect(slot, c, id) ==
    /\ storage = "db"
    /\ slot \notin DOMAIN inflight
    /\ session[c] # Null
    /\ inflight' = Put(inflight, slot,
                       [ client |-> c, snippetId |-> id, userId |-> session[c],
                         existingLike |-> Db_isSnippetLiked(db, id, session[c]),
                         pc |-> "unlike selected" ])
    /\ UNCHANGED <<mem, db, storage, session, now, resp>>

\* if (!existingLike) return false; else the DELETE FROM snippet_likes
UnlikeDelete(slot) ==
    /\ storage = "db"
    /\ slot \in DOMAIN inflight
    /\ inflight[slot].pc = "unlike selected"
    /\ LET r == inflight[slot]
       IN  IF ~r.existingLike
           THEN /\ Reply("DELETE /api/snippets/:id/like", r.client, r.snippetId, "", 400,
                         <<>>, {})
                /\ inflight' = Drop(inflight, {slot})
                /\ UNCHANGED <<mem, db>>
           ELSE /\ db' = Db_deleteLikes(db, r.snippetId, r.userId)
                /\ inflight' = [inflight EXCEPT ![slot].pc = "deleted"]
                /\ UNCHANGED <<mem, resp>>
    /\ UNCHANGED <<storage, session, now>>

\* UPDATE snippets SET likes = likes - 1; return true; the route answers 200
UnlikeUpdate(slot) ==
    /\ storage = "db"
    /\ slot \in DOMAIN inflight
    /\ inflight[slot].pc = "deleted"
    /\ LET r == inflight[slot]
       IN  /\ db' = Db_addLikes(db, r.snippetId, -1)
           /\ Reply("DELETE /api/snippets/:id/like", r.client, r.snippetId, "", 200, <<>>, {})
    /\ inflight' = Drop(inflight, {slot})
    /\ UNCHANGED <<mem, storage, session, now>>

\* MemStorage.unlikeSnippet has no await: on it the request is DeleteLike
NextUnlikeRace ==
    \/ \E c \in Clients : Register(c, NameOf[c], MailOf[c], Password)
    \/ \E c \in Clients : Cur.snippetSeq < UnlikeMaxSnippets /\ PostSnippet(c, TitleA, TRUE)
    \/ \E c \in Clients, id \in SnippetIds : PostLike(c, id)
    \/ \E c \in Clients, id \in SnippetIds : GetSnippet(c, id, "ip1")
    \/ \E c \in Clients, id \in SnippetIds : storage = "mem" /\ DeleteLike(c, id)
    \/ \E slot \in Slots, c \in Clients, id \in DOMAIN Cur.snippets :
        Cur.snippets[id].likes > -UnlikeMaxBelowZero /\ UnlikeSelect(slot, c, id)
    \/ \E slot \in Slots : UnlikeDelete(slot)
    \/ \E slot \in Slots : UnlikeUpdate(slot)

SpecUnlikeRace == Init /\ [][NextUnlikeRace]_vars

\* C25: a snippet's likes counter and views counter are never negative, in
\* either storage, also while two unlike requests of one user for one snippet
\* interleave at the awaits of DatabaseStorage.unlikeSnippet.
C25_CountersNotNegative ==
    \A s \in DOMAIN Cur.snippets : Cur.snippets[s].likes >= 0 /\ Cur.snippets[s].views >= 0

\* ------------------------------------------- administrators at the same time
\* a request to one of the two routes on DatabaseStorage, up to the answer of
\* the getUser of requireAdmin
AdminCheck(slot, c, route, id, rank) ==
    /\ storage = "db"
    /\ slot \notin DOMAIN inflight
    /\ LET gate == requireAdmin(storage, db, session[c])
       IN  IF gate # 0
           THEN /\ Reply(route, c, id, rank, gate, <<>>, {})
                /\ UNCHANGED inflight
           ELSE /\ inflight' = Put(inflight, slot,
                                   [ client |-> c, userId |-> session[c], route |-> route,
                                     id |-> id, rank |-> rank, pc |-> "admitted" ])
                /\ UNCHANGED resp
    /\ UNCHANGED <<mem, db, storage, session, now>>

\* next(): the handler of the route, on the store as it is by now
AdminAct(slot) ==
    /\ storage = "db"
    /\ slot \in DOMAIN inflight
    /\ inflight[slot].pc = "admitted"
    /\ LET r == inflight[slot]
           updated == updateUser(storage, db, r.id, [rank |-> r.rank])
       IN  IF r.route = "DELETE /api/admin/users/:id"
           THEN IF r.id = r.userId
                THEN /\ Reply(r.route, r.client, r.id, "", 400, <<>>, {})
                     /\ UNCHANGED db
                ELSE IF ~getUser(storage, db, r.id)
                THEN /\ Reply(r.route, r.client, r.id, "", 404, <<>>, {})
                     /\ UNCHANGED db
                ELSE /\ db' = deleteUserAndSnippets(storage, db, r.id).st
                     /\ Reply(r.route, r.client, r.id, "", 200, <<>>, {})
           ELSE IF r.rank \notin ValidRanks
                THEN /\ Reply(r.route, r.client, r.id, r.rank, 400, <<>>, {})
                     /\ UNCHANGED db
                ELSE IF r.id = r.userId /\ r.rank = "default"
                THEN /\ Reply(r.route, r.client, r.id, r.rank, 400, <<>>, {})
                     /\ UNCHANGED db
                ELSE IF ~getUser(storage, db, r.id)
                THEN /\ Reply(r.route, r.client, r.id, r.rank, 404, <<>>, {})
                     /\ UNCHANGED db
                ELSE IF updated.ret = Null
                THEN /\ Reply(r.route, r.client, r.id, r.rank, 500, <<>>, {})
                     /\ UNCHANGED db
                ELSE /\ db' = updated.st
                     /\ ReplyUsers(r.route, r.client, r.id, r.rank, 200, <<>>, {},
                                   <<WithoutPassword(updated.st.users[r.id])>>)
    /\ inflight' = Drop(inflight, {slot})
    /\ UNCHANGED <<mem, storage, session, now>>

\* with MemStorage the getUser of requireAdmin resolves at once and the
\* request is AdminDeleteUser or AdminPatchRank
NextAdminRace ==
    \/ Cur.userSeq = 0 /\ SetupAdmin("c1")
    \/ Cur.userSeq = 1 /\ Register(Member, NameOf[Member], MailOf[Member], Password)
    \/ Login("c1", AdminUsername, AdminPassword)
    \/ \E c \in Clients, id \in UserIds : storage = "mem" /\ AdminDeleteUser(c, id)
    \/ \E c \in Clients, id \in UserIds, rank \in ValidRanks :
        storage = "mem" /\ AdminPatchRank(c, id, rank)
    \/ \E slot \in Slots, c \in Clients, id \in UserIds, rank \in ValidRanks :
        AdminCheck(slot, c, "PATCH /api/admin/users/:id/rank", id, rank)
    \/ \E slot \in Slots, c \in Clients, id \in UserIds :
        AdminCheck(slot, c, "DELETE /api/admin/users/:id", id, "")
    \/ \E slot \in Slots : AdminAct(slot)

SpecAdminRace == Init /\ [][NextAdminRace]_vars

Admins(st) == {u \in DOMAIN st.users : st.users[u].rank = "admin"}

\* C26: once a user with rank admin exists, a user with rank admin exists in
\* every later state reached through the admin endpoints, also when requests
\* of two administrators that demote or delete each other interleave between
\* the check of requireAdmin and the write.
C26_AlwaysAnAdmin ==
    [][Admins(Cur) # {} => Admins(CurNext) # {}]_vars

\* --------------------------------------------- records of users that are gone
\* C27: in every reachable state each stored snippet's authorId, each like's
\* userId and each follow's followerId is the id of a stored user, also after
\* an administrator has deleted a user whose session is still live.
C27_RecordsOfStoredUsers ==
    /\ \A s \in DOMAIN Cur.snippets : Has(Cur.users, Cur.snippets[s].authorId)
    /\ \A l \in Rows(Cur.snippetLikes) : Has(Cur.users, l.userId)
    /\ \A f \in Rows(Cur.follows) : Has(Cur.users, f.followerId)

\* ------------------------------------------ records of snippets that are gone
\* no like, view or notification of the store refers to the snippet
Unreferenced(st, snippetId) ==
    /\ \A l \in Rows(st.snippetLikes) : l.snippetId # snippetId
    /\ \A v \in Rows(st.snippetViews) : v.snippetId # snippetId
    /\ \A n \in DOMAIN st.notifications : st.notifications[n].snippetId # snippetId

\* C28: each like record, each view record and each notification's snippetId
\* refers to a stored snippet: when a snippet is deleted, by its author or by
\* an administrator, no like, view or notification that references it is
\* left in the store.
C28_DeleteSnippetLeavesNoRecords ==
    [][LET r == resp'
       IN  (/\ r.route \in {"DELETE /api/snippets/:id", "DELETE /api/admin/snippets/:id"}
            /\ r.status = 200
            /\ Has(Cur.snippets, r.id)
            /\ ~Has(CurNext.snippets, r.id)) => Unreferenced(CurNext, r.id)]_vars

\* ----------------------------------------------- what a PATCH may overwrite
\* bodies of PATCH /api/snippets/:id: some or none of the declared keys, and
\* keys the schema does not declare
PatchBodies ==
    { [title |-> TitleB],
      [isPublic |-> FALSE],
      [title |-> TitleB, isPublic |-> TRUE],
      [likes |-> 5],
      [title |-> TitleB, authorId |-> 2, views |-> 7, likes |-> 5, createdAt |-> 3],
      [authorId |-> 1, updatedAt |-> 3] }

NextPatch ==
    \/ \E c \in Clients : Register(c, NameOf[c], MailOf[c], Password)
    \/ Cur.snippetSeq < PatchMaxSnippets /\ PostSnippet(Member, TitleA, TRUE)
    \/ \E c \in Clients : Cur.snippetSeq > 0 /\ PostLike(c, 1)
    \/ \E c \in Clients, id \in SnippetIds, body \in PatchBodies : PatchSnippetBody(c, id, body)

SpecPatch == Init /\ [][NextPatch]_vars

\* the fields a PATCH may write
PatchFields == InsertSnippetFields \cup {"updatedAt"}

\* C29: a PATCH /api/snippets/:id answered 200 changes only title,
\* description, html, css, javascript, isPublic and updatedAt of that
\* snippet: whatever the body contains, its id, authorId, views, likes and
\* createdAt, and every other snippet, are as before.
C29_PatchFrame ==
    [][LET r == resp'
       IN  (r.route = "PATCH /api/snippets/:id" /\ r.status = 200) =>
            /\ DOMAIN CurNext.snippets = DOMAIN Cur.snippets
            /\ \A s \in DOMAIN Cur.snippets \ {r.id} :
                    CurNext.snippets[s] = Cur.snippets[s]
            /\ DOMAIN CurNext.snippets[r.id] = DOMAIN Cur.snippets[r.id]
            /\ \A f \in DOMAIN Cur.snippets[r.id] \ PatchFields :
                    CurNext.snippets[r.id][f] = Cur.snippets[r.id][f]]_vars

\* a PATCH has been answered 200 while two snippets are stored, for a snippet
\* liked twice, which has the new title and is private now
C29_Witness ==
    /\ resp.route = "PATCH /api/snippets/:id"
    /\ resp.status = 200
    /\ Cardinality(DOMAIN Cur.snippets) = 2
    /\ Cur.snippets[resp.id].title = TitleB
    /\ Cur.snippets[resp.id].likes = 2
    /\ ~Cur.snippets[resp.id].isPublic

\* ------------------------------------------------ where administrators come from
\* C30: a user created by POST /api/auth/register has rank default, and a
\* user comes to have rank admin only in a PATCH /api/admin/users/:id/rank
\* answered 200 whose session user is an administrator at that moment: no
\* request without an administrator's session brings a user with rank admin
\* into existence.
C30_AdminOnlyByAdmin ==
    [][LET r == resp'
       IN  /\ (r.route = "POST /api/auth/register" /\ r.status = 200) =>
                CurNext.users[r.id].rank = "default"
           /\ Admins(CurNext) \ Admins(Cur) # {} =>
                /\ r.route = "PATCH /api/admin/users/:id/rank"
                /\ r.status = 200
                /\ requireAdmin(storage, Cur, session[r.client]) = 0]_vars

====
